---- MODULE Spec2Model ----
(***************************************************************************)
(* Model of github.com/midbel/log: the scanner, the read-pattern compiler, *)
(* the filter-expression compiler, the Reader that composes them, and the  *)
(* write-pattern compiler of the text Writer.                              *)
(*                                                                         *)
(* A Go string is modelled as a sequence of one-character strings (the     *)
(* inputs are ASCII, so one rune is one byte and a byte offset is a rune   *)
(* offset).  utf8.RuneError, which the scanner returns when it reads past  *)
(* the end of its input, is the distinguished rune RuneError.              *)
(***************************************************************************)
EXTENDS Integers, Sequences, FiniteSets, TLC

\* ------------------------------------------------------------------------
\* Runes and rune classes (cmd/cat/main.go:197-223)
\* ------------------------------------------------------------------------

RuneError == "RuneError"

Digit == {"0", "1", "2", "3", "4", "5", "6", "7", "8", "9"}

LowerLetter == {"a", "b", "c", "d", "e", "f", "g", "h", "i", "j", "k", "l", "m",
                "n", "o", "p", "q", "r", "s", "t", "u", "v", "w", "x", "y", "z"}

UpperLetter == {"A", "B", "C", "D", "E", "F", "G", "H", "I", "J", "K", "L", "M",
                "N", "O", "P", "Q", "R", "S", "T", "U", "V", "W", "X", "Y", "Z"}

Punct == {" ", "%", "(", ")", ",", "-", "_", ".", ":", ";", "[", "]", "'",
          "\"", "=", "!", "|", "#", "/", "+"}

\* every rune a scanner can return in this model
Rune == Digit \cup LowerLetter \cup UpperLetter \cup Punct \cup {RuneError}

isDigit(r) == r \in Digit

isLetter(r) == r \in LowerLetter \cup UpperLetter

isAlpha(r) == isDigit(r) \/ isLetter(r) \/ r = "-" \/ r = "_" \/ r = "."

isBlank(r) == r = " " \/ r = "\t" \/ r = "\n"

isEOL(r) == r = RuneError

isQuote(r) == r = "'" \/ r = "\""

\* the accept predicates handed to readUntil, as the sets of runes they accept
AcceptAlpha == {r \in Rune : isAlpha(r)}

AcceptLetter == {r \in Rune : isLetter(r)}

AcceptBlank == {r \in Rune : isBlank(r)}

AcceptNotBlank == {r \in Rune : ~isBlank(r)}

AcceptNotAlpha == {r \in Rune : ~isAlpha(r)}

AcceptNotParen == {r \in Rune : r # ")"}

\* ------------------------------------------------------------------------
\* scanner (cmd/cat/main.go:82-195)
\* ------------------------------------------------------------------------

\* the embedded cursor of a scanner
cursor(s) == [curr |-> s.curr, next |-> s.next]

scan(str) == [input |-> str, curr |-> 0, next |-> 0,
              old |-> [curr |-> 0, next |-> 0]]

reset(s) == [s EXCEPT !.curr = 0, !.next = 0, !.old = [curr |-> 0, next |-> 0]]

\* utf8.DecodeRuneInString(s.input[i:]) on ASCII input: the rune and its size
DecodeRuneAt(input, i) ==
    IF i >= Len(input) THEN [char |-> RuneError, size |-> 0]
    ELSE [char |-> input[i + 1], size |-> 1]

\* a read that moves next by one rune whatever was decoded
readAhead(s) ==
    [s    |-> [s EXCEPT !.old = cursor(s), !.curr = s.next, !.next = s.next + 1],
     char |-> DecodeRuneAt(s.input, s.next).char]

read(s) ==
    LET d == DecodeRuneAt(s.input, s.next)
    IN  [s    |-> [s EXCEPT !.old = cursor(s), !.curr = s.next,
                            !.next = s.next + d.size],
         char |-> d.char]

\* an unread that leaves the cursor where the read put it
unreadInPlace(s) == [s |-> s, err |-> "nil"]

unread(s) ==
    IF cursor(s) = s.old THEN [s |-> s, err |-> "ErrUnread"]
    ELSE [s |-> [s EXCEPT !.curr = s.old.curr, !.next = s.old.next],
          err |-> "nil"]

current(s) == DecodeRuneAt(s.input, s.curr).char

peek(s) == IF s.next >= Len(s.input) THEN RuneError
           ELSE DecodeRuneAt(s.input, s.next).char

done(s) == s.curr >= Len(s.input)

RECURSIVE readUntil(_, _)
readUntil(s, accept) ==
    IF done(s) THEN [s |-> s, str |-> <<>>]
    ELSE LET cons(char, t) == [s |-> t.s, str |-> <<char>> \o t.str]
             step(c) == IF c.char \notin accept THEN [s |-> c.s, str |-> <<>>]
                        ELSE cons(c.char, readUntil(c.s, accept))
         IN  step(read(s))

\* defer s.unread(): the unread runs after readUntil has returned
readText(s) ==
    LET deferred(t) == [s |-> unread(t.s).s, str |-> t.str]
    IN  deferred(readUntil(s, AcceptLetter))

readAlpha(s) ==
    LET deferred(t) == [s |-> unread(t.s).s, str |-> t.str]
    IN  deferred(readUntil(s, AcceptAlpha))

readBlank(s) == unread(readUntil(s, AcceptBlank).s).s

readQuote(s) ==
    LET quote == current(s)
    IN  readUntil(read(s).s, {quote})

readLiteral(s) ==
    IF isQuote(peek(s)) THEN readQuote(s) ELSE readAlpha(s)

\* ------------------------------------------------------------------------
\* Standard library: strconv.Atoi, strings.Count / Join, string order
\* ------------------------------------------------------------------------

DigitVal(c) ==
    CASE c = "0" -> 0 [] c = "1" -> 1 [] c = "2" -> 2 [] c = "3" -> 3
      [] c = "4" -> 4 [] c = "5" -> 5 [] c = "6" -> 6 [] c = "7" -> 7
      [] c = "8" -> 8 [] c = "9" -> 9

RECURSIVE DigitsVal(_)
DigitsVal(str) ==
    IF str = <<>> THEN 0
    ELSE 10 * DigitsVal(SubSeq(str, 1, Len(str) - 1)) + DigitVal(str[Len(str)])

AllDigits(str) == \A i \in 1..Len(str) : isDigit(str[i])

\* strconv.Atoi: an optional sign and at least one decimal digit; on a syntax
\* error the value is 0 and the error is a *strconv.NumError
Atoi(str) ==
    LET signed == Len(str) > 0 /\ str[1] \in {"-", "+"}
        digits == IF signed THEN Tail(str) ELSE str
    IN  IF digits = <<>> \/ ~AllDigits(digits)
        THEN [n |-> 0, err |-> "ErrNum"]
        ELSE [n   |-> IF signed /\ str[1] = "-" THEN 0 - DigitsVal(digits)
                      ELSE DigitsVal(digits),
              err |-> "nil"]

\* strconv.Itoa
RECURSIVE NatToStr(_)
NatToStr(n) ==
    LET d == <<"0", "1", "2", "3", "4", "5", "6", "7", "8", "9">>
    IN  IF n < 10 THEN <<d[n + 1]>>
        ELSE NatToStr(n \div 10) \o <<d[(n % 10) + 1]>>

Itoa(n) == IF n < 0 THEN <<"-">> \o NatToStr(0 - n) ELSE NatToStr(n)

Count(str, c) == Cardinality({i \in 1..Len(str) : str[i] = c})

RECURSIVE Join(_, _)
Join(parts, sep) ==
    IF parts = <<>> THEN <<>>
    ELSE IF Len(parts) = 1 THEN parts[1]
    ELSE parts[1] \o sep \o Join(Tail(parts), sep)

\* the runes of the model in the byte order of their UTF-8 encoding
RuneSeq ==
    <<" ", "!", "\"", "#", "%", "'", "(", ")", "+", ",", "-", ".", "/",
      "0", "1", "2", "3", "4", "5", "6", "7", "8", "9", ":", ";", "=",
      "A", "B", "C", "D", "E", "F", "G", "H", "I", "J", "K", "L", "M",
      "N", "O", "P", "Q", "R", "S", "T", "U", "V", "W", "X", "Y", "Z",
      "[", "]", "_",
      "a", "b", "c", "d", "e", "f", "g", "h", "i", "j", "k", "l", "m",
      "n", "o", "p", "q", "r", "s", "t", "u", "v", "w", "x", "y", "z",
      "|", RuneError>>

RuneOrd(c) == CHOOSE i \in 1..Len(RuneSeq) : RuneSeq[i] = c

\* a < b on Go strings
RECURSIVE StrLess(_, _)
StrLess(a, b) ==
    IF b = <<>> THEN FALSE
    ELSE IF a = <<>> THEN TRUE
    ELSE IF a[1] # b[1] THEN RuneOrd(a[1]) < RuneOrd(b[1])
    ELSE StrLess(Tail(a), Tail(b))

\* strings.Contains
Contains(str, sub) ==
    \E i \in 1..(Len(str) - Len(sub) + 1) : SubSeq(str, i, i + Len(sub) - 1) = sub

HasPrefix(str, pre) == Len(str) >= Len(pre) /\ SubSeq(str, 1, Len(pre)) = pre

Drop(str, n) == SubSeq(str, n + 1, Len(str))

\* ------------------------------------------------------------------------
\* Standard library: time.Time and time.Parse.  A time is its civil date and
\* clock in UTC; the zero time.Time is January 1, year 1, 00:00:00.
\* The layout elements modelled are the ones the time-token table can emit
\* (2006 06 01 1 Jan Mon 02 2 15 03 3 04 4 05 5); a layout holding any other
\* element of the library is reported as ErrLayout and is never used.
\* ------------------------------------------------------------------------

ZeroTime == [year |-> 1, month |-> 1, day |-> 1, hour |-> 0, min |-> 0, sec |-> 0]

IsZero(t) == t = ZeroTime

TimeKey(t) == <<t.year, t.month, t.day, t.hour, t.min, t.sec>>

RECURSIVE TupleLess(_, _)
TupleLess(a, b) ==
    IF a = <<>> THEN FALSE
    ELSE IF a[1] # b[1] THEN a[1] < b[1]
    ELSE TupleLess(Tail(a), Tail(b))

Before(t, u) == TupleLess(TimeKey(t), TimeKey(u))

isLeap(y) == y % 4 = 0 /\ (y % 100 # 0 \/ y % 400 = 0)

daysIn(m, y) ==
    IF m = 2 THEN (IF isLeap(y) THEN 29 ELSE 28)
    ELSE IF m \in {4, 6, 9, 11} THEN 30 ELSE 31

shortMonthNames ==
    <<<<"j", "a", "n">>, <<"f", "e", "b">>, <<"m", "a", "r">>,
      <<"a", "p", "r">>, <<"m", "a", "y">>, <<"j", "u", "n">>,
      <<"j", "u", "l">>, <<"a", "u", "g">>, <<"s", "e", "p">>,
      <<"o", "c", "t">>, <<"n", "o", "v">>, <<"d", "e", "c">>>>

shortDayNames ==
    <<<<"s", "u", "n">>, <<"m", "o", "n">>, <<"t", "u", "e">>,
      <<"w", "e", "d">>, <<"t", "h", "u">>, <<"f", "r", "i">>,
      <<"s", "a", "t">>>>

\* the layout element starting at the head of the layout, if any
StdAt(l) ==
    LET at(i) == IF i <= Len(l) THEN l[i] ELSE ""
        c == at(1)
    IN  CASE c = "J" /\ HasPrefix(l, <<"J", "a", "n">>) ->
                IF HasPrefix(l, <<"J", "a", "n", "u", "a", "r", "y">>)
                THEN [std |-> "unsupported", len |-> 7]
                ELSE [std |-> "stdMonth", len |-> 3]
          [] c = "M" /\ HasPrefix(l, <<"M", "o", "n">>) ->
                IF HasPrefix(l, <<"M", "o", "n", "d", "a", "y">>)
                THEN [std |-> "unsupported", len |-> 6]
                ELSE [std |-> "stdWeekDay", len |-> 3]
          [] c = "M" /\ HasPrefix(l, <<"M", "S", "T">>) ->
                [std |-> "unsupported", len |-> 3]
          [] c = "0" /\ at(2) \in {"1", "2", "3", "4", "5", "6"} ->
                [std |-> CASE at(2) = "1" -> "stdZeroMonth"
                           [] at(2) = "2" -> "stdZeroDay"
                           [] at(2) = "3" -> "stdZeroHour12"
                           [] at(2) = "4" -> "stdZeroMinute"
                           [] at(2) = "5" -> "stdZeroSecond"
                           [] at(2) = "6" -> "stdYear",
                 len |-> 2]
          [] c = "0" /\ at(2) = "0" /\ at(3) = "2" ->
                [std |-> "unsupported", len |-> 3]
          [] c = "1" -> IF at(2) = "5" THEN [std |-> "stdHour", len |-> 2]
                        ELSE [std |-> "stdNumMonth", len |-> 1]
          [] c = "2" -> IF HasPrefix(l, <<"2", "0", "0", "6">>)
                        THEN [std |-> "stdLongYear", len |-> 4]
                        ELSE [std |-> "stdDay", len |-> 1]
          [] c = "3" -> [std |-> "stdHour12", len |-> 1]
          [] c = "4" -> [std |-> "stdMinute", len |-> 1]
          [] c = "5" -> [std |-> "stdSecond", len |-> 1]
          [] c = "_" /\ at(2) = "2" -> [std |-> "unsupported", len |-> 2]
          [] c = "_" /\ at(2) = "_" /\ at(3) = "2" ->
                [std |-> "unsupported", len |-> 3]
          [] c \in {"P", "p"} /\ at(2) \in {"M", "m"} ->
                [std |-> "unsupported", len |-> 2]
          [] c \in {"-", "Z"} /\ at(2) = "0" /\ at(3) = "7" ->
                [std |-> "unsupported", len |-> 3]
          [] c \in {".", ","} /\ at(2) \in {"0", "9"} ->
                [std |-> "unsupported", len |-> 2]
          [] OTHER -> [std |-> "", len |-> 0]

\* time.nextStdChunk: the literal prefix, the first layout element, the rest
RECURSIVE nextStdChunk(_)
nextStdChunk(l) ==
    IF l = <<>> THEN [prefix |-> <<>>, std |-> "", suffix |-> <<>>]
    ELSE LET cons(n) == [n EXCEPT !.prefix = <<l[1]>> \o n.prefix]
             step(a) ==
                 IF a.std # ""
                 THEN [prefix |-> <<>>, std |-> a.std, suffix |-> Drop(l, a.len)]
                 ELSE cons(nextStdChunk(Tail(l)))
         IN  step(StdAt(l))

RECURSIVE cutspace(_)
cutspace(str) ==
    IF str # <<>> /\ str[1] = " " THEN cutspace(Tail(str)) ELSE str

\* time.skip: the value without the literal prefix
RECURSIVE skip(_, _)
skip(value, prefix) ==
    IF prefix = <<>> THEN [value |-> value, err |-> "nil"]
    ELSE IF prefix[1] = " "
    THEN IF value # <<>> /\ value[1] # " "
         THEN [value |-> value, err |-> "ErrTime"]
         ELSE skip(cutspace(value), cutspace(prefix))
    ELSE IF value = <<>> \/ value[1] # prefix[1]
    THEN [value |-> value, err |-> "ErrTime"]
    ELSE skip(Tail(value), Tail(prefix))

\* time.getnum: one or two digits, exactly two when fixed
getnum(value, fixed) ==
    IF value = <<>> \/ ~isDigit(value[1])
    THEN [n |-> 0, value |-> value, err |-> "ErrTime"]
    ELSE IF Len(value) < 2 \/ ~isDigit(value[2])
    THEN IF fixed THEN [n |-> 0, value |-> value, err |-> "ErrTime"]
         ELSE [n |-> DigitVal(value[1]), value |-> Tail(value), err |-> "nil"]
    ELSE [n |-> DigitsVal(SubSeq(value, 1, 2)), value |-> Drop(value, 2),
          err |-> "nil"]

UpperSeq == <<"A", "B", "C", "D", "E", "F", "G", "H", "I", "J", "K", "L", "M",
              "N", "O", "P", "Q", "R", "S", "T", "U", "V", "W", "X", "Y", "Z">>

LowerSeq == <<"a", "b", "c", "d", "e", "f", "g", "h", "i", "j", "k", "l", "m",
              "n", "o", "p", "q", "r", "s", "t", "u", "v", "w", "x", "y", "z">>

ToLower(c) ==
    IF c \in UpperLetter
    THEN LowerSeq[CHOOSE i \in 1..26 : UpperSeq[i] = c]
    ELSE c

\* time.lookup on the three-letter names: the index of the name the value
\* starts with, compared without case
lookup(tab, value) ==
    LET head == IF Len(value) >= 3
                THEN [i \in 1..3 |-> ToLower(value[i])] ELSE <<>>
        hits == {i \in 1..Len(tab) : tab[i] = head}
    IN  IF hits = {} THEN [n |-> -1, value |-> value, err |-> "ErrTime"]
        ELSE [n |-> CHOOSE i \in hits : TRUE, value |-> Drop(value, 3),
              err |-> "nil"]

\* the atoi of package time, on the two characters of a short year
TimeAtoi(p) ==
    LET signed == p # <<>> /\ p[1] \in {"-", "+"}
        digits == IF signed THEN Tail(p) ELSE p
    IN  IF ~AllDigits(digits) THEN [n |-> 0, err |-> "ErrTime"]
        ELSE [n |-> IF signed /\ p[1] = "-" THEN 0 - DigitsVal(digits)
                    ELSE DigitsVal(digits), err |-> "nil"]

\* a fractional second that follows the seconds in the value is consumed
\* even though the layout has none
RECURSIVE SkipDigits(_)
SkipDigits(value) ==
    IF value # <<>> /\ isDigit(value[1]) THEN SkipDigits(Tail(value)) ELSE value

SkipFraction(value) ==
    IF Len(value) >= 2 /\ value[1] \in {".", ","} /\ isDigit(value[2])
    THEN SkipDigits(Tail(value)) ELSE value

\* one layout element applied to the value: the fields read so far, the rest
\* of the value and the error
ParseStd(std, value, acc) ==
    LET bad == [acc |-> acc, value |-> value, err |-> "ErrTime"]
        put(g, inRange, a) ==
            IF g.err # "nil" \/ ~inRange THEN bad
            ELSE [acc |-> a, value |-> g.value, err |-> "nil"]
        year(a) ==
            IF a.err # "nil" THEN bad
            ELSE [acc |-> [acc EXCEPT !.year =
                              IF a.n >= 69 THEN a.n + 1900 ELSE a.n + 2000],
                  value |-> Drop(value, 2), err |-> "nil"]
        monthName(g) == put(g, TRUE, [acc EXCEPT !.month = g.n])
        dayName(g) == put(g, TRUE, acc)
        month(g)  == put(g, g.n > 0 /\ g.n <= 12, [acc EXCEPT !.month = g.n])
        day(g)    == put(g, TRUE, [acc EXCEPT !.day = g.n])
        hour(g)   == put(g, g.n < 24, [acc EXCEPT !.hour = g.n])
        hour12(g) == put(g, g.n <= 12, [acc EXCEPT !.hour = g.n])
        minute(g) == put(g, g.n < 60, [acc EXCEPT !.min = g.n])
        second(g) == put([g EXCEPT !.value = SkipFraction(g.value)], g.n < 60,
                         [acc EXCEPT !.sec = g.n])
    IN  CASE std = "stdYear" ->
                IF Len(value) < 2 THEN bad
                ELSE year(TimeAtoi(SubSeq(value, 1, 2)))
          [] std = "stdLongYear" ->
                IF Len(value) < 4 \/ ~AllDigits(SubSeq(value, 1, 4)) THEN bad
                ELSE [acc |-> [acc EXCEPT !.year = DigitsVal(SubSeq(value, 1, 4))],
                      value |-> Drop(value, 4), err |-> "nil"]
          [] std = "stdMonth" -> monthName(lookup(shortMonthNames, value))
          [] std = "stdWeekDay" -> dayName(lookup(shortDayNames, value))
          [] std \in {"stdNumMonth", "stdZeroMonth"} ->
                month(getnum(value, std = "stdZeroMonth"))
          [] std \in {"stdDay", "stdZeroDay"} ->
                day(getnum(value, std = "stdZeroDay"))
          [] std = "stdHour" -> hour(getnum(value, FALSE))
          [] std \in {"stdHour12", "stdZeroHour12"} ->
                hour12(getnum(value, std = "stdZeroHour12"))
          [] std \in {"stdMinute", "stdZeroMinute"} ->
                minute(getnum(value, std = "stdZeroMinute"))
          [] std \in {"stdSecond", "stdZeroSecond"} ->
                second(getnum(value, std = "stdZeroSecond"))

RECURSIVE ParseLayout(_, _, _)
ParseLayout(layout, value, acc) ==
    LET fail(err) == [t |-> ZeroTime, err |-> err]
        month == IF acc.month < 0 THEN 1 ELSE acc.month
        day   == IF acc.day < 0 THEN 1 ELSE acc.day
        finish ==
            IF day < 1 \/ day > daysIn(month, acc.year) THEN fail("ErrTime")
            ELSE [t |-> [acc EXCEPT !.month = month, !.day = day], err |-> "nil"]
        next(chunk, p) ==
            IF p.err # "nil" THEN fail("ErrTime")
            ELSE ParseLayout(chunk.suffix, p.value, p.acc)
        element(chunk, sk) ==
            IF sk.err # "nil" THEN fail("ErrTime")
            ELSE IF chunk.std = ""
            THEN IF sk.value # <<>> THEN fail("ErrTime") ELSE finish
            ELSE next(chunk, ParseStd(chunk.std, sk.value, acc))
        prefix(chunk) ==
            IF chunk.std = "unsupported" THEN fail("ErrLayout")
            ELSE element(chunk, skip(value, chunk.prefix))
    IN  prefix(nextStdChunk(layout))

\* time.Parse(layout, value): the zero time and an error when it fails
TimeParse(layout, value) ==
    ParseLayout(layout, value,
                [year |-> 0, month |-> -1, day |-> -1,
                 hour |-> 0, min |-> 0, sec |-> 0])

\* ------------------------------------------------------------------------
\* Errors (format.go:28-31).  errors.Is(err, ErrPattern) holds of the errors
\* built with %w around ErrPattern only.
\* ------------------------------------------------------------------------

ErrPattern == "ErrPattern"

ErrSyntax == "ErrSyntax"

\* an error made by fmt.Errorf without a wrapped sentinel
ErrPlain == "ErrPlain"

EOF == "EOF"

\* ------------------------------------------------------------------------
\* Entry (unnamed/part_000:39-59)
\* ------------------------------------------------------------------------

Empty ==
    [Lino |-> 0, Line |-> <<>>, Pid |-> 0, Process |-> <<>>, User |-> <<>>,
     Group |-> <<>>, Level |-> <<>>, Message |-> <<>>, Words |-> <<>>,
     Named |-> <<>>, Host |-> <<>>, When |-> ZeroTime]

\* e.Named[name] = word
SetNamed(named, name, word) ==
    [k \in (DOMAIN named) \cup {name} |-> IF k = name THEN word ELSE named[k]]

\* ------------------------------------------------------------------------
\* Time-token translator (timefmt.go:117-194)
\* ------------------------------------------------------------------------

defaultTimeFormat == <<"y", "y", "y", "y", "-", "m", "m", "-", "d", "d", " ", "H", "H", ":", "M", "M", ":", "S", "S">>

timeTable ==
    {<<<<"y", "y">>, <<"0", "6">>>>,
     <<<<"y", "y", "y", "y">>, <<"2", "0", "0", "6">>>>,
     <<<<"m">>, <<"1">>>>,
     <<<<"m", "m">>, <<"0", "1">>>>,
     <<<<"m", "m", "m">>, <<"J", "a", "n">>>>,
     <<<<"c", "c", "c">>, <<"M", "o", "n">>>>,
     <<<<"d">>, <<"2">>>>,
     <<<<"d", "d">>, <<"0", "2">>>>,
     <<<<"d", "d", "d">>, <<"0", "0", "2">>>>,
     <<<<"h">>, <<"3">>>>,
     <<<<"h", "h">>, <<"0", "3">>>>,
     <<<<"H", "H">>, <<"1", "5">>>>,
     <<<<"M">>, <<"4">>>>,
     <<<<"M", "M">>, <<"0", "4">>>>,
     <<<<"s">>, <<"5">>>>,
     <<<<"s", "s">>, <<"0", "5">>>>,
     <<<<"S">>, <<"0">>>>,
     <<<<"S", "S", "S">>, <<"0", "0", "0">>>>}

timeKeys == {p[1] : p \in timeTable}

\* timeMapping[key]: the empty string for a key the map does not hold
timeMapping(key) ==
    IF key \in timeKeys THEN (CHOOSE p \in timeTable : p[1] = key)[2] ELSE <<>>

\* len(timeCodes.Lookup(tmp, -1)): the number of places where tmp occurs in
\* the keys of the table (the suffix array indexes the keys joined by NUL);
\* nothing is looked up for the empty string
Lookup(tmp) ==
    IF tmp = <<>> THEN 0
    ELSE Cardinality({<<k, i>> \in timeKeys \X (1..4) :
                         /\ i + Len(tmp) - 1 <= Len(k)
                         /\ SubSeq(k, i, i + Len(tmp) - 1) = tmp})

RECURSIVE timeFormatLoop(_, _, _)
timeFormatLoop(str, tmp, res) ==
    IF done(str) THEN [s |-> str, format |-> res, err |-> "nil"]
    ELSE LET step(s1, char, ext) ==
                 IF isEOL(char) THEN [s |-> s1, format |-> <<>>, err |-> ErrSyntax]
                 ELSE IF char = ")" THEN [s |-> s1, format |-> res, err |-> "nil"]
                 ELSE IF ~isLetter(char)
                 THEN timeFormatLoop(s1, <<>>,
                         (IF Lookup(tmp) > 0 THEN res \o timeMapping(tmp) ELSE res)
                            \o <<char>>)
                 ELSE IF Lookup(ext) = 1
                 THEN timeFormatLoop(s1, <<>>, res \o timeMapping(ext))
                 ELSE IF Lookup(ext) = 0 /\ tmp # <<>>
                 THEN timeFormatLoop(s1, <<>>, res \o timeMapping(tmp) \o <<char>>)
                 ELSE timeFormatLoop(s1, ext, res)
             got(c) == step(c.s, c.char, Append(tmp, c.char))
         IN  got(read(str))

parseTimeFormat(str) ==
    IF peek(str) # "(" THEN [s |-> str, format |-> defaultTimeFormat, err |-> "nil"]
    ELSE timeFormatLoop(read(str).s, <<>>, <<>>)

\* ------------------------------------------------------------------------
\* Read-pattern compiler (format.go:59-348).  A compiled parsefunc is the
\* record of its closure: the function and the values it captured.
\* ------------------------------------------------------------------------

\* the keys of hostMapping; every one of them maps to a function that reads
\* an alpha run
hostMapping ==
    {<<"h", "o", "s", "t", "n", "a", "m", "e">>,
     <<"f", "q", "d", "n">>,
     <<"i", "p", "4">>,
     <<"i", "p", "6">>,
     <<"p", "o", "r", "t">>,
     <<"m", "a", "s", "k">>}

getHostname == [fn |-> "getHostAlpha"]

getHostLiteral(in) == [fn |-> "getHostLiteral", in |-> in]

RECURSIVE hostFormatLoop(_, _)
hostFormatLoop(str, hfs) ==
    IF done(str) THEN [s |-> str, hfs |-> hfs, err |-> "nil"]
    ELSE LET named(a, u) ==
                 IF a.str \notin hostMapping
                 THEN [s |-> a.s, hfs |-> <<>>, err |-> ErrPlain]
                 ELSE IF peek(a.s) = ")"
                 THEN hostFormatLoop(a.s, Append(hfs, getHostname))
                 ELSE hostFormatLoop(unread(u.s).s,
                         IF u.str # <<>>
                         THEN hfs \o <<getHostname, getHostLiteral(u.str)>>
                         ELSE Append(hfs, getHostname))
             name(a) == named(a, readUntil(a.s, AcceptNotAlpha))
             step(c) ==
                 IF isEOL(c.char) THEN [s |-> c.s, hfs |-> <<>>, err |-> ErrSyntax]
                 ELSE IF c.char = ")" THEN [s |-> c.s, hfs |-> hfs, err |-> "nil"]
                 ELSE name(readAlpha(unread(c.s).s))
         IN  step(read(str))

\* the hostfunc is the list merged by mergeHost; a bare %h is getHostname
parseHostFormat(str) ==
    IF peek(str) # "(" THEN [s |-> str, hfs |-> <<getHostname>>, err |-> "nil"]
    ELSE hostFormatLoop(read(str).s, <<>>)

getLiteral(in) == [fn |-> "getLiteral", in |-> in]

getWhen(format) == [fn |-> "getWhen", format |-> format, iter |-> Count(format, " ")]

getWord(name) == [fn |-> "getWord", name |-> name]

getHost(get) == [fn |-> "getHost", get |-> get]

parseSpecifier(str) ==
    LET when(f) ==
            IF f.err # "nil" THEN [s |-> f.s, fn |-> <<>>, err |-> f.err]
            ELSE [s |-> f.s, fn |-> getWhen(f.format), err |-> "nil"]
        host(h) ==
            IF h.err # "nil" THEN [s |-> h.s, fn |-> <<>>, err |-> h.err]
            ELSE [s |-> h.s, fn |-> getHost(h.hfs), err |-> "nil"]
        word(n) == [s |-> n.s, fn |-> getWord(n.str), err |-> "nil"]
        spec(s1, char) ==
            LET ok(fn) == [s |-> s1, fn |-> [fn |-> fn], err |-> "nil"]
            IN  CASE char = "t" -> when(parseTimeFormat(s1))
                  [] char = "b" -> ok("getBlank")
                  [] char = "n" -> ok("getProcess")
                  [] char = "p" -> ok("getPID")
                  [] char = "u" -> ok("getUser")
                  [] char = "g" -> ok("getGroup")
                  [] char = "h" -> host(parseHostFormat(s1))
                  [] char = "l" -> ok("getLevel")
                  [] char = "m" -> ok("getMessage")
                  [] char = "w" ->
                       IF peek(s1) = "("
                       THEN word(readUntil(read(s1).s, AcceptNotParen))
                       ELSE [s |-> s1, fn |-> getWord(<<>>), err |-> "nil"]
                  [] OTHER -> [s |-> s1, fn |-> <<>>, err |-> ErrSyntax]
        got(c) == spec(c.s, c.char)
    IN  got(read(str))

\* the literal pending in tmp, flushed in front of what follows it
FlushLiteral(pfs, tmp) ==
    IF tmp # <<>> THEN Append(pfs, getLiteral(tmp)) ELSE pfs

RECURSIVE parseFormatLoop(_, _, _)
parseFormatLoop(str, tmp, pfs) ==
    LET spec(sp) ==
            IF sp.err # "nil" THEN [pfs |-> <<>>, err |-> sp.err]
            ELSE parseFormatLoop(sp.s, <<>>, Append(FlushLiteral(pfs, tmp), sp.fn))
        step(s1, char) ==
            IF done(s1) THEN [pfs |-> FlushLiteral(pfs, tmp), err |-> "nil"]
            ELSE IF char = RuneError THEN [pfs |-> <<>>, err |-> ErrPlain]
            ELSE IF char # "%" \/ char = peek(s1)
            THEN parseFormatLoop(IF char = "%" THEN read(s1).s ELSE s1,
                                 Append(tmp, char), pfs)
            ELSE spec(parseSpecifier(s1))
        got(c) == step(c.s, c.char)
    IN  got(read(str))

\* the parsefunc is the list merged by mergeParse
parseFormat(pattern) ==
    IF pattern = <<>> THEN [pfs |-> <<>>, err |-> ErrSyntax]
    ELSE parseFormatLoop(scan(pattern), <<>>, <<>>)

\* ------------------------------------------------------------------------
\* The compiled extractors at work on one line (format.go:184-339)
\* ------------------------------------------------------------------------

\* getLiteral / getHostLiteral: the runes of the literal read one by one,
\* stopping at the first that differs
RECURSIVE matchLiteral(_, _)
matchLiteral(str, in) ==
    IF in = <<>> THEN [s |-> str, err |-> "nil"]
    ELSE LET step(c) == IF c.char # in[1] THEN [s |-> c.s, err |-> ErrPattern]
                        ELSE matchLiteral(c.s, Tail(in))
         IN  step(read(str))

callHost(hf, str) ==
    LET literal(m) == [s |-> m.s, str |-> IF m.err = "nil" THEN hf.in ELSE <<>>,
                       err |-> m.err]
        alpha(a) == [s |-> a.s, str |-> a.str, err |-> "nil"]
    IN  IF hf.fn = "getHostLiteral" THEN literal(matchLiteral(str, hf.in))
        ELSE alpha(readAlpha(str))

RECURSIVE mergeHost(_, _, _)
mergeHost(hfs, str, parts) ==
    IF hfs = <<>> THEN [s |-> str, str |-> parts, err |-> "nil"]
    ELSE LET step(h) == IF h.err # "nil" THEN [s |-> h.s, str |-> <<>>, err |-> h.err]
                        ELSE mergeHost(Tail(hfs), h.s, parts \o h.str)
         IN  step(callHost(hfs[1], str))

\* the fragments getWhen reads: iter+1 runs of non-blank runes, a run of
\* blanks between two of them
RECURSIVE whenParts(_, _, _, _)
whenParts(str, i, iter, parts) ==
    IF i > iter THEN [s |-> str, parts |-> parts]
    ELSE LET next(f, s1) ==
                 whenParts(IF i < iter THEN readBlank(s1) ELSE s1,
                           i + 1, iter, Append(parts, f.str))
             field(f) == next(f, unread(f.s).s)
         IN  field(readUntil(str, AcceptNotBlank))

\* pf(e, str): the entry and the scanner as the extractor leaves them
callParse(pf, e, str) ==
    LET literal(m) == [e |-> e, s |-> m.s, err |-> m.err]
        pid(lit, a) == [e |-> [e EXCEPT !.Pid = a.n], s |-> lit.s, err |-> a.err]
        parsed(w, t) == [e |-> [e EXCEPT !.When = t.t], s |-> w.s, err |-> t.err]
        when(w) == parsed(w, TimeParse(pf.format, Join(w.parts, <<" ">>)))
        host(h) == [e |-> [e EXCEPT !.Host = h.str], s |-> h.s, err |-> h.err]
        get(lit) ==
            LET field(f) == [e |-> [e EXCEPT ![f] = lit.str], s |-> lit.s,
                             err |-> "nil"]
            IN  CASE pf.fn = "getUser" -> field("User")
                  [] pf.fn = "getGroup" -> field("Group")
                  [] pf.fn = "getProcess" -> field("Process")
                  [] pf.fn = "getLevel" -> field("Level")
                  [] pf.fn = "getMessage" -> field("Message")
                  [] pf.fn = "getPID" -> pid(lit, Atoi(lit.str))
                  [] pf.fn = "getWord" ->
                       [e |-> [e EXCEPT !.Words = Append(e.Words, lit.str),
                                        !.Named = IF pf.name # <<>>
                                                  THEN SetNamed(e.Named, pf.name, lit.str)
                                                  ELSE e.Named],
                        s |-> lit.s, err |-> "nil"]
    IN  CASE pf.fn = "getLiteral" -> literal(matchLiteral(str, pf.in))
          [] pf.fn = "getBlank" -> [e |-> e, s |-> readBlank(str), err |-> "nil"]
          [] pf.fn = "getWhen" -> when(whenParts(str, 0, pf.iter, <<>>))
          [] pf.fn = "getHost" -> host(mergeHost(pf.get, str, <<>>))
          [] OTHER -> get(readLiteral(str))

RECURSIVE mergeParse(_, _, _)
mergeParse(pfs, e, str) ==
    IF pfs = <<>> THEN [e |-> e, s |-> str, err |-> "nil"]
    ELSE LET step(p) == IF p.err # "nil" THEN p
                        ELSE mergeParse(Tail(pfs), p.e, p.s)
         IN  step(callParse(pfs[1], e, str))

\* ------------------------------------------------------------------------
\* The revision of the read-pattern compiler with alternatives
\* (unnamed/part_002:37-91, 221-248).  A compiled pattern is the list of its
\* alternatives, each the list mergeParse merges.  The specifiers are the
\* ones of parseSpecifier; the getWhen of this revision reads with save and
\* restore, which the scanner does not have, and no pattern given to this
\* compiler in the model holds %t.
\* ------------------------------------------------------------------------

\* parsePattern: one alternative, up to the '|' or the end of the pattern
RECURSIVE parsePattern(_, _, _)
parsePattern(str, tmp, pfs) ==
    LET spec(sp) ==
            IF sp.err # "nil" THEN [s |-> sp.s, pfs |-> <<>>, err |-> sp.err]
            ELSE parsePattern(sp.s, <<>>, Append(FlushLiteral(pfs, tmp), sp.fn))
        step(s1, char) ==
            IF done(s1) \/ char = "|"
            THEN [s |-> s1, pfs |-> FlushLiteral(pfs, tmp), err |-> "nil"]
            ELSE IF char = RuneError THEN [s |-> s1, pfs |-> <<>>, err |-> ErrPlain]
            ELSE IF char # "%" \/ char = peek(s1)
            THEN parsePattern(IF char = "%" THEN read(s1).s ELSE s1,
                              Append(tmp, char), pfs)
            ELSE spec(parseSpecifier(s1))
        got(c) == step(c.s, c.char)
    IN  got(read(str))

\* for !str.done() { fn, err := parsePattern(str) ... }
RECURSIVE parseAlternatives(_, _)
parseAlternatives(str, alts) ==
    LET next(p) ==
            IF p.err # "nil" THEN [alts |-> <<>>, err |-> p.err]
            ELSE parseAlternatives(p.s, Append(alts, p.pfs))
    IN  IF done(str) THEN [alts |-> alts, err |-> "nil"]
        ELSE next(parsePattern(str, <<>>, <<>>))

\* parseFormat of this revision
parseFormatAlternatives(pat) ==
    IF pat = <<>> THEN [alts |-> <<>>, err |-> ErrSyntax]
    ELSE parseAlternatives(scan(pat), <<>>)

\* the loop of mergeAlternative: the scanner reset, then the alternative, on
\* the entry as the alternatives before it left it
RECURSIVE tryAlternatives(_, _, _)
tryAlternatives(alts, e, str) ==
    IF alts = <<>> THEN [e |-> e, s |-> str, err |-> ErrPattern]
    ELSE LET step(p) == IF p.err = "nil" THEN p
                        ELSE tryAlternatives(Tail(alts), p.e, p.s)
         IN  step(mergeParse(alts[1], e, reset(str)))

\* mergeAlternative: a single alternative is called as it is
mergeAlternative(alts, e, str) ==
    IF Len(alts) = 1 THEN mergeParse(alts[1], e, str)
    ELSE tryAlternatives(alts, e, str)

\* ------------------------------------------------------------------------
\* Filter-expression compiler (filter.go:25-390).  A compiled filterfunc is
\* the record of its closure; Nil is the nil func value.
\* ------------------------------------------------------------------------

Nil == [op |-> "nil"]

AlwaysTrue == [op |-> "true"]

makeAll(fs) == [op |-> "all", fs |-> fs]

makeAny(fs) == [op |-> "any", fs |-> fs]

makeNot(f) == [op |-> "not", f |-> f]

\* sort.Strings
RECURSIVE InsertSorted(_, _)
InsertSorted(list, x) ==
    IF list = <<>> THEN <<x>>
    ELSE IF StrLess(x, list[1]) THEN <<x>> \o list
    ELSE <<list[1]>> \o InsertSorted(Tail(list), x)

RECURSIVE SortStrings(_)
SortStrings(list) ==
    IF list = <<>> THEN <<>>
    ELSE InsertSorted(SortStrings(Tail(list)), list[1])

parseFieldValue(str) ==
    LET bad(s) == [s |-> s, field |-> <<>>, value |-> <<>>, err |-> ErrSyntax]
        close(f, v, c) ==
            IF c.char # ")" THEN bad(c.s)
            ELSE [s |-> readBlank(c.s), field |-> f.str, value |-> v.str,
                  err |-> "nil"]
        value(f, v) == close(f, v, read(v.s))
        comma(f, c) == IF c.char # "," THEN bad(c.s)
                       ELSE value(f, readAlpha(readBlank(c.s)))
        field(f) == comma(f, read(f.s))
        open(c) == IF c.char # "(" THEN bad(c.s)
                   ELSE field(readText(readBlank(c.s)))
    IN  open(read(str))

RECURSIVE fieldListLoop(_, _)
fieldListLoop(str, list) ==
    IF done(str) \/ current(str) = ")" THEN [s |-> str, list |-> list, err |-> "nil"]
    ELSE LET sep(l, c, s2) ==
                 CASE c.char = "," ->
                        IF current(s2) = ")"
                        THEN [s |-> s2, list |-> <<>>, err |-> ErrSyntax]
                        ELSE fieldListLoop(s2, Append(list, l.str))
                   [] c.char = ")" -> fieldListLoop(c.s, Append(list, l.str))
                   [] OTHER -> [s |-> c.s, list |-> <<>>, err |-> ErrSyntax]
             after(l, c) == sep(l, c, readBlank(c.s))
             item(l) == after(l, read(l.s))
         IN  item(readLiteral(str))

parseFieldList(str) ==
    LET bad(s, err) == [s |-> s, field |-> <<>>, list |-> <<>>, err |-> err]
        close(f, l, c) ==
            IF c.char # ")" THEN bad(c.s, ErrSyntax)
            ELSE [s |-> readBlank(c.s), field |-> f.str,
                  list |-> SortStrings(l.list), err |-> "nil"]
        items(f, l) == IF l.err # "nil" THEN bad(l.s, l.err)
                       ELSE close(f, l, read(l.s))
        comma(f, c) == IF c.char # "," THEN bad(c.s, ErrSyntax)
                       ELSE items(f, fieldListLoop(readBlank(c.s), <<>>))
        field(f) == comma(f, read(f.s))
        open(c) == IF c.char # "(" THEN bad(c.s, ErrSyntax)
                   ELSE field(readText(readBlank(c.s)))
    IN  open(read(str))

\* makeEq, makeLt, makeLe, makeGt, makeGe, makeLike: the closure over the
\* field and the value
makeCompare(op, str) ==
    LET make(p) ==
            IF p.err # "nil" THEN [s |-> p.s, fn |-> Nil, err |-> p.err]
            ELSE [s |-> p.s, fn |-> [op |-> op, field |-> p.field, value |-> p.value],
                  err |-> "nil"]
    IN  make(parseFieldValue(str))

makeNe(str) ==
    LET negate(f) == IF f.err # "nil" THEN f ELSE [f EXCEPT !.fn = makeNot(f.fn)]
    IN  negate(makeCompare("eq", str))

makeBetween(str) ==
    LET make(p) ==
            IF p.err # "nil" THEN [s |-> p.s, fn |-> Nil, err |-> p.err]
            ELSE IF Len(p.list) # 2 THEN [s |-> p.s, fn |-> Nil, err |-> ErrPlain]
            ELSE [s |-> p.s,
                  fn |-> [op |-> "between", field |-> p.field, list |-> p.list],
                  err |-> "nil"]
    IN  make(parseFieldList(str))

makeIn(str) ==
    LET make(p) ==
            IF p.err # "nil" THEN [s |-> p.s, fn |-> Nil, err |-> p.err]
            ELSE [s |-> p.s, fn |-> [op |-> "in", field |-> p.field, list |-> p.list],
                  err |-> "nil"]
    IN  make(parseFieldList(str))

makeEq(str) == makeCompare("eq", str)

makeLt(str) == makeCompare("lt", str)

makeLe(str) == makeCompare("le", str)

makeGt(str) == makeCompare("gt", str)

makeGe(str) == makeCompare("ge", str)

makeLike(str) == makeCompare("like", str)

RECURSIVE parseFunction(_)
RECURSIVE parseVariadicLoop(_, _)

parseVariadic(str) ==
    LET close(l) ==
            IF l.err # "nil" THEN l
            ELSE IF current(l.s) # ")" THEN [s |-> l.s, fs |-> <<>>, err |-> ErrSyntax]
            ELSE [s |-> readBlank(l.s), fs |-> l.fs, err |-> "nil"]
        open(c) == IF c.char # "(" THEN [s |-> c.s, fs |-> <<>>, err |-> ErrSyntax]
                   ELSE close(parseVariadicLoop(readBlank(c.s), <<>>))
    IN  open(read(str))

parseUnary(str) ==
    LET close(f, c) ==
            IF c.char # ")" THEN [s |-> c.s, fn |-> Nil, err |-> ErrSyntax]
            ELSE [s |-> readBlank(c.s), fn |-> f.fn, err |-> "nil"]
        inner(f) == IF f.err # "nil" THEN [s |-> f.s, fn |-> Nil, err |-> f.err]
                    ELSE close(f, read(f.s))
        open(c) == IF c.char # "(" THEN [s |-> c.s, fn |-> Nil, err |-> ErrSyntax]
                   ELSE inner(parseFunction(readBlank(c.s)))
    IN  open(read(str))

\* case "not": fn and err are declared anew inside the case by :=, so the
\* function's own fn and err stay nil whatever parseUnary returns
parseNot(str) ==
    LET u == parseUnary(str)
    IN  [s |-> u.s, fn |-> Nil, err |-> "nil"]

parseFunction(str) ==
    LET allOf(v) == IF v.err # "nil" THEN [s |-> v.s, fn |-> Nil, err |-> v.err]
                  ELSE [s |-> v.s, fn |-> makeAll(v.fs), err |-> "nil"]
        anyOf(v) == IF v.err # "nil" THEN [s |-> v.s, fn |-> Nil, err |-> v.err]
                  ELSE [s |-> v.s, fn |-> makeAny(v.fs), err |-> "nil"]
        call(name, s1) ==
            CASE name = <<"a", "l", "l">> -> allOf(parseVariadic(s1))
              [] name = <<"a", "n", "y">> -> anyOf(parseVariadic(s1))
              [] name = <<"n", "o", "t">> -> parseNot(s1)
              [] name = <<"e", "q">> -> makeEq(s1)
              [] name = <<"n", "e">> -> makeNe(s1)
              [] name = <<"l", "t">> -> makeLt(s1)
              [] name = <<"l", "e">> -> makeLe(s1)
              [] name = <<"g", "t">> -> makeGt(s1)
              [] name = <<"g", "e">> -> makeGe(s1)
              [] name = <<"i", "n">> -> makeIn(s1)
              [] name = <<"l", "i", "k", "e">> -> makeLike(s1)
              [] name = <<"b", "e", "t", "w", "e", "e", "n">> -> makeBetween(s1)
              [] OTHER -> [s |-> s1, fn |-> Nil, err |-> ErrPlain]
        named(n) == call(n.str, n.s)
    IN  named(readAlpha(str))

parseVariadicLoop(str, fs) ==
    IF done(str) \/ current(str) = ")" THEN [s |-> str, fs |-> fs, err |-> "nil"]
    ELSE LET sep(f, c, s2) ==
                 CASE c.char = "," ->
                        IF current(s2) = ")"
                        THEN [s |-> s2, fs |-> <<>>, err |-> ErrSyntax]
                        ELSE parseVariadicLoop(s2, Append(fs, f.fn))
                   [] c.char = ")" -> parseVariadicLoop(c.s, Append(fs, f.fn))
                   [] OTHER -> [s |-> c.s, fs |-> <<>>, err |-> ErrSyntax]
             after(f, c) == sep(f, c, readBlank(c.s))
             item(f) == IF f.err # "nil" THEN [s |-> f.s, fs |-> <<>>, err |-> f.err]
                        ELSE after(f, read(f.s))
         IN  item(parseFunction(str))

parseFilter(expr) ==
    LET compiled(f) == [fn |-> f.fn, err |-> f.err]
    IN  IF expr = <<>> THEN [fn |-> AlwaysTrue, err |-> "nil"]
        ELSE compiled(parseFunction(scan(expr)))

\* ------------------------------------------------------------------------
\* Filter evaluation (filter.go:33-235, timefmt.go:196-214)
\* ------------------------------------------------------------------------

timesFormat ==
    <<<<"2", "0", "0", "6", "-", "0", "1", "-", "0", "2">>,
      <<"2", "0", "0", "6", "-", "0", "1", "-", "0", "2", " ", "1", "5", ":", "0", "4", ":", "0", "5">>,
      <<"2", "0", "0", "6", "-", "0", "1", "-", "0", "2", "T", "1", "5", ":", "0", "4", ":", "0", "5">>>>

\* the loop of parseTime from the i-th format on: the first format that
\* parses the string; the zero time and the error of the last one when none
\* does
RECURSIVE parseTimeFrom(_, _)
parseTimeFrom(i, str) ==
    LET try(w) == IF w.err = "nil" \/ i = Len(timesFormat) THEN w
                  ELSE parseTimeFrom(i + 1, str)
    IN  try(TimeParse(timesFormat[i], str))

parseTime(str) == parseTimeFrom(1, str)

\* the value of a field with its dynamic type
getField(field, e) ==
    LET val(type, v) == [type |-> type, v |-> v, err |-> "nil"]
    IN  CASE field \in {<<"h", "o", "s", "t", "n", "a", "m", "e">>, <<"h", "o", "s", "t">>} ->
               val("string", e.Host)
          [] field = <<"l", "e", "v", "e", "l">> -> val("string", e.Level)
          [] field = <<"u", "s", "e", "r">> -> val("string", e.User)
          [] field = <<"g", "r", "o", "u", "p">> -> val("string", e.Group)
          [] field = <<"p", "i", "d">> -> val("int", e.Pid)
          [] field = <<"p", "r", "o", "c", "e", "s", "s">> -> val("string", e.Process)
          [] field = <<"m", "e", "s", "s", "a", "g", "e">> -> val("string", e.Message)
          [] field = <<"t", "i", "m", "e">> -> val("time", e.When)
          [] OTHER -> [type |-> "nil", v |-> 0, err |-> ErrPlain]

lessThan(val, value) ==
    CASE val.type = "int" -> val.v < Atoi(value).n
      [] val.type = "string" -> StrLess(val.v, value)
      [] val.type = "time" -> Before(val.v, parseTime(value).t)
      [] OTHER -> FALSE

equal(val, value) ==
    CASE val.type = "int" -> val.v = Atoi(value).n
      [] val.type = "string" -> val.v = value
      [] val.type = "time" -> val.v = parseTime(value).t
      [] OTHER -> FALSE

Pad(n, width) ==
    LET d == NatToStr(n)
    IN  [i \in 1..(width - Len(d)) |-> "0"] \o d

\* fmt.Sprintf("%s", set): the string itself, the bad-verb text of an int,
\* the String() of a time in UTC
Sprintf(val) ==
    CASE val.type = "string" -> val.v
      [] val.type = "int" -> <<"%", "!", "s", "(", "i", "n", "t", "=">> \o Itoa(val.v) \o <<")">>
      [] val.type = "time" ->
            Pad(val.v.year, 4) \o <<"-">> \o Pad(val.v.month, 2) \o <<"-">>
               \o Pad(val.v.day, 2) \o <<" ">> \o Pad(val.v.hour, 2) \o <<":">>
               \o Pad(val.v.min, 2) \o <<":">> \o Pad(val.v.sec, 2)
               \o <<" ", "+", "0", "0", "0", "0", " ", "U", "T", "C">>

\* sort.SearchStrings(list, search): the first index (from 0) whose string is
\* not below the searched one, found by bisection
RECURSIVE SearchStrings(_, _, _, _)
SearchStrings(list, search, i, j) ==
    IF i >= j THEN i
    ELSE LET h == (i + j) \div 2
         IN  IF StrLess(list[h + 1], search)
             THEN SearchStrings(list, search, h + 1, j)
             ELSE SearchStrings(list, search, i, h)

\* fn(e) for a comparison closure
compare(fn, e) ==
    LET member(search, i) == i < Len(fn.list) /\ fn.list[i + 1] = search
        find(search) == member(search, SearchStrings(fn.list, search, 0, Len(fn.list)))
        apply(set) ==
            IF set.err # "nil" THEN FALSE
            ELSE CASE fn.op = "eq" -> equal(set, fn.value)
                   [] fn.op = "lt" -> lessThan(set, fn.value)
                   [] fn.op = "le" -> lessThan(set, fn.value) \/ equal(set, fn.value)
                   [] fn.op = "gt" -> ~lessThan(set, fn.value) /\ ~equal(set, fn.value)
                   [] fn.op = "ge" -> ~lessThan(set, fn.value) \/ equal(set, fn.value)
                   [] fn.op = "like" -> Contains(Sprintf(set), fn.value)
                   [] fn.op = "between" ->
                         \/ equal(set, fn.list[1])
                         \/ equal(set, fn.list[2])
                         \/ ~lessThan(set, fn.list[1]) /\ lessThan(set, fn.list[2])
                   [] fn.op = "in" -> find(Sprintf(set))
    IN  apply(getField(fn.field, e))

\* fn(e): "true", "false", or "panic" when a nil func value is called
RECURSIVE callFilter(_, _)
RECURSIVE callAll(_, _)
RECURSIVE callAny(_, _)

callAll(fs, e) ==
    IF fs = <<>> THEN "true"
    ELSE LET step(ok) == IF ok # "true" THEN ok ELSE callAll(Tail(fs), e)
         IN  step(callFilter(fs[1], e))

callAny(fs, e) ==
    IF fs = <<>> THEN "false"
    ELSE LET step(ok) == IF ok # "false" THEN ok ELSE callAny(Tail(fs), e)
         IN  step(callFilter(fs[1], e))

callFilter(fn, e) ==
    LET negate(ok) == IF ok = "panic" THEN ok
                      ELSE IF ok = "true" THEN "false" ELSE "true"
    IN  CASE fn.op = "nil" -> "panic"
          [] fn.op = "true" -> "true"
          [] fn.op = "all" -> callAll(fn.fs, e)
          [] fn.op = "any" -> callAny(fn.fs, e)
          [] fn.op = "not" -> negate(callFilter(fn.f, e))
          [] OTHER -> IF compare(fn, e) THEN "true" ELSE "false"

\* ------------------------------------------------------------------------
\* Reader (unnamed/part_006:9-91)
\* ------------------------------------------------------------------------

\* defaultParseFormat[""]
defaultParseFormat == <<"%", "t", "(", "m", "m", "m", " ", "d", "d", " ", "H", "H", ":", "M", "M", ":", "s", "s", ")", " ", "%", "u", " ", "%", "n", "[", "%", "p", "]", ":", " ", "%", "m">>

resolveParseFormat(pat) == IF pat = <<>> THEN defaultParseFormat ELSE pat

\* r.keep == nil || r.keep(e)
keeps(keep, e) == IF keep.op = "nil" THEN "true" ELSE callFilter(keep, e)

\* The loop of Read over the lines the bufio.Scanner delivers.  rd is the
\* Reader, e the entry declared before the loop, ioe the error the stream
\* ends with (nil at a clean end of input).  log records, for every line
\* taken from the stream, its position, the error of the parser, the entry
\* handed to the filter and what the filter answered.
RECURSIVE readLoop(_, _, _, _, _)
readLoop(rd, lines, ioe, e, log) ==
    IF rd.pos >= Len(lines)
    THEN LET err == IF ioe = "nil" THEN EOF ELSE ioe
         IN  [r |-> [rd EXCEPT !.err = err], e |-> e, err |-> err,
              panic |-> FALSE, log |-> log]
    ELSE LET line == lines[rd.pos + 1]
             r1   == [rd EXCEPT !.pos = rd.pos + 1]
             ev(p, kept) == [pos |-> r1.pos, line |-> line, perr |-> p.err,
                             e |-> p.e, kept |-> kept]
             filtered(p, k) ==
                 IF k = "panic"
                 THEN [r |-> r1, e |-> p.e, err |-> "nil", panic |-> TRUE,
                       log |-> Append(log, ev(p, k))]
                 ELSE IF k = "true"
                 THEN [r |-> r1, e |-> [p.e EXCEPT !.Line = line, !.Lino = r1.lino],
                       err |-> "nil", panic |-> FALSE, log |-> Append(log, ev(p, k))]
                 ELSE readLoop(r1, lines, ioe, p.e, Append(log, ev(p, k)))
             parsed(p) ==
                 IF p.err # "nil"
                 THEN IF p.err = ErrPattern
                      THEN readLoop(r1, lines, ioe, p.e, Append(log, ev(p, "unasked")))
                      ELSE [r |-> [r1 EXCEPT !.err = p.err], e |-> p.e, err |-> p.err,
                            panic |-> FALSE, log |-> Append(log, ev(p, "unasked"))]
                 ELSE filtered(p, keeps(rd.keep, p.e))
         IN  IF Len(line) = 0 THEN readLoop(r1, lines, ioe, e, log)
             ELSE parsed(mergeParse(rd.parse, e, scan(line)))

\* Read without its test of r.err (part_006:61-63): every call goes to the
\* stream again
ReadUnguarded(rd, lines, ioe) ==
    readLoop([rd EXCEPT !.lino = rd.lino + 1], lines, ioe, Empty, <<>>)

\* Read with the line number stored in the entry before the loop instead
\* of on acceptance (part_006:86)
ReadStamped(rd, lines, ioe) ==
    IF rd.err # "nil"
    THEN [r |-> [rd EXCEPT !.lino = rd.lino + 1], e |-> Empty, err |-> rd.err,
          panic |-> FALSE, log |-> <<>>]
    ELSE readLoop([rd EXCEPT !.lino = rd.lino + 1], lines, ioe,
                  [Empty EXCEPT !.Lino = rd.lino + 1], <<>>)

\* Reader.Read
ReadOp(rd, lines, ioe) ==
    LET r1 == [rd EXCEPT !.lino = rd.lino + 1]
    IN  IF r1.err # "nil"
        THEN [r |-> r1, e |-> Empty, err |-> r1.err, panic |-> FALSE, log |-> <<>>]
        ELSE readLoop(r1, lines, ioe, Empty, <<>>)

\* Reader.ReadAll: Read until it returns an error; rets are the results of
\* the calls to Read it made
RECURSIVE ReadAllOp(_, _, _, _, _)
ReadAllOp(rd, lines, ioe, es, rets) ==
    LET collect(x) ==
            IF x.panic
            THEN [r |-> x.r, es |-> es, err |-> "nil", panic |-> TRUE,
                  rets |-> Append(rets, x)]
            ELSE IF x.err # "nil"
            THEN [r |-> x.r, es |-> es, err |-> x.err, panic |-> FALSE,
                  rets |-> Append(rets, x)]
            ELSE ReadAllOp(x.r, lines, ioe, Append(es, x.e), Append(rets, x))
    IN  collect(ReadOp(rd, lines, ioe))

\* ------------------------------------------------------------------------
\* Write-pattern compiler (print.go:29-207) and the text Writer
\* (unnamed/part_004:9-52).  A compiled printfunc is the record of its
\* closure; a printinfo is the record of the Go struct.
\* ------------------------------------------------------------------------

\* time.RFC3339
RFC3339 == <<"2", "0", "0", "6", "-", "0", "1", "-", "0", "2", "T", "1", "5", ":", "0", "4", ":", "0", "5", "Z", "0", "7", ":", "0", "0">>

\* var defaultPrintFormat = map[string]string{}: a table without entries
defaultPrintFormat == [p \in {} |-> p]

AcceptDigit == {r \in Rune : isDigit(r)}

AcceptNotCommaBracket == {r \in Rune : r # "," /\ r # "]"}

AcceptNotBracket == {r \in Rune : r # "]"}

\* the decimal width of a directive: the run of digits at the cursor
readNumber(s) ==
    LET deferred(t) == [s |-> unread(t.s).s, str |-> t.str]
    IN  deferred(readUntil(s, AcceptDigit))

infoFromFunc(fn) == [Width |-> 0, Fore |-> <<>>, Back |-> <<>>, Func |-> fn]

printLiteral(str) == [fn |-> "printLiteral", str |-> str]

printName(name) == [fn |-> "printName", name |-> name]

printTime(format) ==
    [fn |-> "printTime", format |-> IF format = <<>> THEN RFC3339 ELSE format]

\* the literal pending in buf, added in front of what follows it
FlushPrint(pfs, buf) ==
    IF buf # <<>> THEN Append(pfs, infoFromFunc(printLiteral(buf))) ELSE pfs

\* if isDigit(char) { ... }: the width, and the rune read after it
printWidth(s1, char) ==
    IF isDigit(char)
    THEN LET next(n, c) == [s |-> c.s, char |-> c.char, Width |-> Atoi(n.str).n]
             num(n) == next(n, read(n.s))
         IN  num(readNumber(unread(s1).s))
    ELSE [s |-> s1, char |-> char, Width |-> 0]

\* if char == '[' { ... }: the colors, and the rune read after the bracket
printColors(w) ==
    IF w.char = "["
    THEN LET next(f, b, c) ==
                 [s |-> c.s, char |-> c.char, Width |-> w.Width,
                  Fore |-> f.str, Back |-> b.str, err |-> "nil"]
             close(f, b) ==
                 IF current(b.s) # "]"
                 THEN [s |-> b.s, char |-> w.char, Width |-> w.Width,
                       Fore |-> f.str, Back |-> b.str, err |-> ErrPlain]
                 ELSE next(f, b, read(b.s))
             back(f) ==
                 IF current(f.s) = "," THEN readUntil(f.s, AcceptNotBracket)
                 ELSE [s |-> f.s, str |-> <<>>]
             fore(f) == close(f, back(f))
         IN  fore(readUntil(w.s, AcceptNotCommaBracket))
    ELSE [s |-> w.s, char |-> w.char, Width |-> w.Width,
          Fore |-> <<>>, Back |-> <<>>, err |-> "nil"]

\* switch char { ... }: the printinfo of one directive
printSpecifier(d) ==
    LET info(fn) == [Width |-> d.Width, Fore |-> d.Fore, Back |-> d.Back, Func |-> fn]
        ok(name) == [s |-> d.s, info |-> info([fn |-> name]), err |-> "nil"]
        when(f) ==
            IF f.err # "nil" THEN [s |-> f.s, info |-> <<>>, err |-> f.err]
            ELSE [s |-> f.s, info |-> info(printTime(f.format)), err |-> "nil"]
    IN  IF d.err # "nil" THEN [s |-> d.s, info |-> <<>>, err |-> d.err]
        ELSE CASE d.char = "t" -> when(parseTimeFormat(d.s))
               [] d.char = "n" -> ok("printProcess")
               [] d.char = "p" -> ok("printPID")
               [] d.char = "u" -> ok("printUser")
               [] d.char = "g" -> ok("printGroup")
               [] d.char = "h" -> ok("printHost")
               [] d.char = "l" -> ok("printLevel")
               [] d.char = "m" -> ok("printMessage")
               [] d.char = "#" -> ok("printLine")
               [] d.char = "d" -> ok("printLino")
               [] d.char = "w" -> [s |-> d.s, info |-> info(printName(<<>>)), err |-> "nil"]
               [] OTHER -> [s |-> d.s, info |-> <<>>, err |-> ErrPattern]

RECURSIVE parsePrintLoop(_, _, _)
parsePrintLoop(str, buf, pfs) ==
    LET spec(sp) ==
            IF sp.err # "nil" THEN [pfs |-> <<>>, err |-> sp.err]
            ELSE parsePrintLoop(sp.s, <<>>, Append(FlushPrint(pfs, buf), sp.info))
        directive(c) == spec(printSpecifier(printColors(printWidth(c.s, c.char))))
        step(s1, char) ==
            IF done(s1) THEN [pfs |-> FlushPrint(pfs, buf), err |-> "nil"]
            ELSE IF char = "%" /\ peek(s1) # char THEN directive(read(s1))
            ELSE parsePrintLoop(IF char = "%" /\ peek(s1) = char THEN read(s1).s ELSE s1,
                                Append(buf, char), pfs)
        got(c) == step(c.s, c.char)
    IN  got(read(str))

\* the printfunc is the list merged by mergePrint
parsePrint(pattern) ==
    IF pattern = <<>> THEN [pfs |-> <<>>, err |-> ErrSyntax]
    ELSE parsePrintLoop(scan(pattern), <<>>, <<>>)

\* Text: the write-pattern looked up in the table of defaults, then compiled
TextOp(pattern) ==
    parsePrint(IF pattern \in DOMAIN defaultPrintFormat
               THEN defaultPrintFormat[pattern] ELSE pattern)

\* ------------------------------------------------------------------------
\* Rendering (print.go:108-290).  What a printfunc writes to its sink is a
\* sequence of characters; "ESC" stands for the one byte \033.
\* ------------------------------------------------------------------------

ESC == "ESC"

ansiColors ==
    <<<<"b", "l", "a", "c", "k">>,
      <<"r", "e", "d">>,
      <<"g", "r", "e", "e", "n">>,
      <<"y", "e", "l", "l", "o", "w">>,
      <<"b", "l", "u", "e">>,
      <<"m", "a", "g", "e", "n", "t", "a">>,
      <<"c", "y", "a", "n">>,
      <<"w", "h", "i", "t", "e">>,
      <<"b", "r", "i", "g", "h", "t", "b", "l", "a", "c", "k">>,
      <<"b", "r", "i", "g", "h", "t", "r", "e", "d">>,
      <<"b", "r", "i", "g", "h", "t", "g", "r", "e", "e", "n">>,
      <<"b", "r", "i", "g", "h", "t", "y", "e", "l", "l", "o", "w">>,
      <<"b", "r", "i", "g", "h", "t", "b", "l", "u", "e">>,
      <<"b", "r", "i", "g", "h", "t", "m", "a", "g", "e", "n", "t", "a">>,
      <<"b", "r", "i", "g", "h", "t", "c", "y", "a", "n">>,
      <<"b", "r", "i", "g", "h", "t", "w", "h", "i", "t", "e">>>>

\* the escape sequence \033[<n>m
ansiCode(n) == <<ESC, "[">> \o NatToStr(n) \o <<"m">>

resetAnsiCode == ansiCode(0)

\* the code of the i-th color of a table whose normal colors start at base:
\* the eight bright colors are sixty above the normal ones
ansiEntry(name, base) ==
    LET code(i) == ansiCode(IF i <= 8 THEN base + i - 1 ELSE base + 60 + i - 9)
        hits == {i \in 1..Len(ansiColors) : ansiColors[i] = name}
    IN  IF hits = {} THEN <<>> ELSE code(CHOOSE i \in hits : TRUE)

\* backgroundAnsiCodes[name]: the empty string for a name the map does not hold
backgroundAnsiCodes(name) == ansiEntry(name, 40)

foregroundAnsiCodes(name) == ansiEntry(name, 30)

\* time.Time.Weekday: 0 is Sunday
Weekday(t) ==
    LET y == IF t.month < 3 THEN t.year - 1 ELSE t.year
        m == IF t.month < 3 THEN t.month + 12 ELSE t.month
        h == (t.day + ((13 * (m + 1)) \div 5) + (y % 100) + ((y % 100) \div 4)
              + ((y \div 100) \div 4) + 5 * (y \div 100)) % 7
    IN  (h + 6) % 7

RECURSIVE YearDay(_, _, _)
YearDay(y, m, d) == IF m = 1 THEN d ELSE daysIn(m - 1, y) + YearDay(y, m - 1, d)

\* the decimal digits of n, with zeros in front up to the width
RECURSIVE PadZero(_, _)
PadZero(str, width) ==
    IF Len(str) >= width THEN str ELSE PadZero(<<"0">> \o str, width)

ToUpper(c) ==
    IF c \in LowerLetter
    THEN UpperSeq[CHOOSE i \in 1..26 : LowerSeq[i] = c]
    ELSE c

Title(name) == <<ToUpper(name[1])>> \o Tail(name)

\* one layout element of time.Time.Format, for a time in UTC
FormatStd(std, t) ==
    LET num(n, width) == PadZero(NatToStr(n), width)
        hr == IF t.hour % 12 = 0 THEN 12 ELSE t.hour % 12
    IN  CASE std = "stdYear" -> num(t.year % 100, 2)
          [] std = "stdLongYear" -> num(t.year, 4)
          [] std = "stdMonth" -> Title(shortMonthNames[t.month])
          [] std = "stdWeekDay" -> Title(shortDayNames[Weekday(t) + 1])
          [] std = "stdNumMonth" -> num(t.month, 1)
          [] std = "stdZeroMonth" -> num(t.month, 2)
          [] std = "stdDay" -> num(t.day, 1)
          [] std = "stdZeroDay" -> num(t.day, 2)
          [] std = "stdHour" -> num(t.hour, 2)
          [] std = "stdHour12" -> num(hr, 1)
          [] std = "stdZeroHour12" -> num(hr, 2)
          [] std = "stdMinute" -> num(t.min, 1)
          [] std = "stdZeroMinute" -> num(t.min, 2)
          [] std = "stdSecond" -> num(t.sec, 1)
          [] std = "stdZeroSecond" -> num(t.sec, 2)

\* time.Time.Format(layout).  Of the elements time.Parse is not modelled
\* for, the zone of RFC3339 (Z07:00, "Z" in UTC) and the day of the year
\* (002) are formatted; no layout of the model holds another one, and it
\* would be copied as it is written
RECURSIVE TimeFormat(_, _)
TimeFormat(layout, t) ==
    LET element(chunk, text) ==
            IF chunk.std # "unsupported"
            THEN FormatStd(chunk.std, t) \o TimeFormat(chunk.suffix, t)
            ELSE IF text = <<"Z", "0", "7">> /\ HasPrefix(chunk.suffix, <<":", "0", "0">>)
            THEN <<"Z">> \o TimeFormat(Drop(chunk.suffix, 3), t)
            ELSE IF text = <<"0", "0", "2">>
            THEN PadZero(NatToStr(YearDay(t.year, t.month, t.day)), 3)
                 \o TimeFormat(chunk.suffix, t)
            ELSE text \o TimeFormat(chunk.suffix, t)
        step(chunk) ==
            IF chunk.std = "" THEN chunk.prefix
            ELSE chunk.prefix
                 \o element(chunk, SubSeq(layout, Len(chunk.prefix) + 1,
                                          Len(layout) - Len(chunk.suffix)))
    IN  step(nextStdChunk(layout))

\* what the printfunc of a directive writes for the entry (print.go:167-250):
\* printString writes nothing for the empty string, printPID nothing unless
\* the pid is positive, printTime nothing for the zero time
PrintFunc(fn, e) ==
    CASE fn.fn = "printLiteral" -> fn.str
      [] fn.fn = "printLino" -> Itoa(e.Lino)
      [] fn.fn = "printLine" -> e.Line
      [] fn.fn = "printName" ->
            IF fn.name = <<>> \/ fn.name \notin DOMAIN e.Named THEN <<>>
            ELSE e.Named[fn.name]
      [] fn.fn = "printTime" ->
            IF IsZero(e.When) THEN <<>> ELSE TimeFormat(fn.format, e.When)
      [] fn.fn = "printProcess" -> e.Process
      [] fn.fn = "printPID" -> IF e.Pid > 0 THEN Itoa(e.Pid) ELSE <<>>
      [] fn.fn = "printUser" -> e.User
      [] fn.fn = "printGroup" -> e.Group
      [] fn.fn = "printHost" -> e.Host
      [] fn.fn = "printLevel" -> e.Level
      [] fn.fn = "printMessage" -> e.Message

\* strings.Repeat(" ", n)
Spaces(n) == [i \in 1..n |-> " "]

\* printinfo.Print (print.go:127-154): the colors found in the tables, the
\* text (padded or truncated to the width when there is one), and the reset
\* when a color was named
PrintInfo(p, e) ==
    LET sized(text) ==
            IF p.Width > 0
            THEN IF Len(text) < p.Width THEN text \o Spaces(p.Width - Len(text))
                 ELSE SubSeq(text, 1, p.Width)
            ELSE text
    IN  foregroundAnsiCodes(p.Fore) \o backgroundAnsiCodes(p.Back)
        \o sized(PrintFunc(p.Func, e))
        \o (IF p.Fore # <<>> \/ p.Back # <<>> THEN resetAnsiCode ELSE <<>>)

\* mergePrint (print.go:156-165): every printinfo in turn
RECURSIVE mergePrint(_, _)
mergePrint(pfs, e) ==
    IF pfs = <<>> THEN <<>>
    ELSE PrintInfo(pfs[1], e) \o mergePrint(Tail(pfs), e)

\* textWriter.Write (unnamed/part_004:54-58): the entry, then a newline
WriteOp(pfs, e) == mergePrint(pfs, e) \o <<"\n">>

\* ------------------------------------------------------------------------
\* The inputs of the model: read-patterns, filter expressions, lines
\* ------------------------------------------------------------------------

\* %u %p;
PatUserPid == <<"%", "u", " ", "%", "p", ";">>

\* %w=%w(k);
PatWords == <<"%", "w", "=", "%", "w", "(", "k", ")", ";">>

\* %t %l
PatTime == <<"%", "t", " ", "%", "l">>

\* bo 0;
LineBo == <<"b", "o", " ", "0", ";">>

\* cy 50;
LineCy == <<"c", "y", " ", "5", "0", ";">>

\* al x;
LineBadPid == <<"a", "l", " ", "x", ";">>

\* the empty string
LineEmpty == <<>>

\* a=b;
LineWords == <<"a", "=", "b", ";">>

\* the empty string
FltNone == <<>>

\* eq(user,bo)
FltEqUser == <<"e", "q", "(", "u", "s", "e", "r", ",", "b", "o", ")">>

\* not(eq(user,bo))
FltNotEqUser == <<"n", "o", "t", "(", "e", "q", "(", "u", "s", "e", "r", ",", "b", "o", ")", ")">>

\* eq(bogus,x)
FltEqBogus == <<"e", "q", "(", "b", "o", "g", "u", "s", ",", "x", ")">>

\* ne(bogus,x)
FltNeBogus == <<"n", "e", "(", "b", "o", "g", "u", "s", ",", "x", ")">>

\* in(bogus,a)
FltInBogus == <<"i", "n", "(", "b", "o", "g", "u", "s", ",", "a", ")">>

\* between(pid,100,200)
FltBetween == <<"b", "e", "t", "w", "e", "e", "n", "(", "p", "i", "d", ",", "1", "0", "0", ",", "2", "0", "0", ")">>

\* between(pid,9,100))
FltBetweenWide == <<"b", "e", "t", "w", "e", "e", "n", "(", "p", "i", "d", ",", "9", ",", "1", "0", "0", ")", ")">>

\* between(pid,100,9))
FltBetweenSwap == <<"b", "e", "t", "w", "e", "e", "n", "(", "p", "i", "d", ",", "1", "0", "0", ",", "9", ")", ")">>

\* all(in(user,bo,cy))
FltAllIn == <<"a", "l", "l", "(", "i", "n", "(", "u", "s", "e", "r", ",", "b", "o", ",", "c", "y", ")", ")">>

\* eq(pid,abc)
FltEqPidText == <<"e", "q", "(", "p", "i", "d", ",", "a", "b", "c", ")">>

\* ge(pid,abc)
FltGePidText == <<"g", "e", "(", "p", "i", "d", ",", "a", "b", "c", ")">>

\* eq(time,junk)
FltEqTimeText == <<"e", "q", "(", "t", "i", "m", "e", ",", "j", "u", "n", "k", ")">>

\* all(not(eq(user,bo)))
FltAllNot == <<"a", "l", "l", "(", "n", "o", "t", "(", "e", "q", "(", "u", "s", "e", "r", ",", "b", "o", ")", ")", ")">>

\* any(eq(user,bo), eq(pid,50))
FltAny == <<"a", "n", "y", "(", "e", "q", "(", "u", "s", "e", "r", ",", "b", "o", ")", ",", " ", "e", "q", "(", "p", "i", "d", ",", "5", "0", ")", ")">>

\* like(user,o)
FltLike == <<"l", "i", "k", "e", "(", "u", "s", "e", "r", ",", "o", ")">>

Patterns == {PatUserPid, PatWords, PatTime}

Lines == {LineBo, LineCy, LineBadPid, LineEmpty, LineWords}

Filters ==
    {FltNone, FltEqUser, FltNotEqUser, FltEqBogus,
     FltNeBogus, FltInBogus, FltBetween, FltBetweenWide,
     FltBetweenSwap, FltAllIn, FltEqPidText, FltGePidText,
     FltEqTimeText, FltAllNot, FltAny, FltLike}

\* the longest input stream, in lines
MaxLines == 3

\* the most calls of Read made on one Reader
MaxCalls == 4

Streams == UNION {[1..n -> Lines] : n \in 0..MaxLines}

\* the pairs of a read-pattern and a filter expression a Reader is built
\* with: every filter with the pattern that fills the fields the filters
\* name, the other patterns without a filter and with one
Configs ==
    ({PatUserPid} \X Filters) \cup ((Patterns \ {PatUserPid}) \X {FltNone, FltEqUser})

\* the errors an input stream can end with: none (a clean end of input) or a
\* failure of the transport
StreamErrors == {"nil", "ErrIO"}

\* ------------------------------------------------------------------------
\* The Reader as a state machine
\* ------------------------------------------------------------------------

VARIABLES
    state,      \* "new", "ready" (NewReader returned a Reader), "failed"
                \* (NewReader returned an error), "panic" (a call panicked)
    pattern,    \* the read-pattern given to NewReader
    filter,     \* the filter expression given to NewReader
    input,      \* the lines of the input stream
    cerr,       \* the error NewReader returned
    r,          \* the Reader: parse, keep, err, lino and the position of inner
    calls,      \* the results of the calls of Read so far, oldest first
    all,        \* the result of the call of ReadAll, if one was made
    writer,     \* the text Writer: the pattern given to Text, its error and
                \* the compiled print
    scanner,    \* a scanner on its own: its state before and after the last
                \* call made on it, the call and what it returned
    sink,       \* the io.Writer given to Text: the entry of the last call
                \* of Write and the characters the call wrote
    alt,        \* a pattern compiled with alternatives, and what it made
                \* of the lines parsed with it
    conc        \* the values compiled once and the calls concurrent callers
                \* make on them, each as far as it has got

\* what the Reader and the Writer leave alone
aside == <<scanner, sink, alt, conc>>

vars == <<state, pattern, filter, input, cerr, r, calls, all, writer, aside>>

NoReader == [parse |-> <<>>, keep |-> Nil, pos |-> 0, err |-> "nil", lino |-> 0]

NotCalled == [called |-> FALSE, es |-> <<>>, err |-> "nil", first |-> 0]

NoWriter == [state |-> "new", pattern |-> <<>>, err |-> "nil", print |-> <<>>]

\* no scanner yet
NoScanner ==
    [op |-> "none", op1 |-> "none", s |-> scan(<<>>), s1 |-> scan(<<>>),
     s2 |-> scan(<<>>), char |-> RuneError, char1 |-> RuneError,
     str |-> <<>>, err |-> "nil", flag |-> FALSE, accept |-> {}]

\* the concurrent callers of the compiled values
MaxCallers == 2

Callers == 1..MaxCallers

\* what the callers share: the compiled parsefunc, filterfunc and printfunc
Compiled(pat, flt, wpat) ==
    [parse |-> parseFormat(pat).pfs, keep |-> parseFilter(flt).fn,
     print |-> parsePrint(wpat).pfs]

Idle ==
    [kind |-> "idle", line |-> <<>>, i |-> 0, e |-> Empty, s |-> scan(<<>>),
     out |-> <<>>, err |-> "nil", kept |-> "unasked", done |-> FALSE,
     mixed |-> FALSE]

NothingCompiled == [parse |-> <<>>, keep |-> Nil, print |-> <<>>]

\* no caller yet
NoCallers ==
    [compiled |-> FALSE, prog |-> NothingCompiled, prog0 |-> NothingCompiled,
     th |-> [t \in Callers |-> Idle]]

\* no pattern with alternatives yet
NoAlternatives ==
    [state |-> "new", pattern |-> <<>>, alts |-> <<>>, err |-> "nil", runs |-> <<>>]

\* nothing written yet
NoSink == [written |-> FALSE, e |-> Empty, out |-> <<>>]

Init ==
    /\ state = "new"
    /\ pattern = <<>>
    /\ filter = <<>>
    /\ input = <<>>
    /\ cerr = "nil"
    /\ r = NoReader
    /\ calls = <<>>
    /\ all = NotCalled
    /\ writer = NoWriter
    /\ scanner = NoScanner
    /\ sink = NoSink
    /\ alt = NoAlternatives
    /\ conc = NoCallers

NewReader(rs, pat, flt) ==
    /\ state = "new"
    /\ \E pf \in {parseFormat(resolveParseFormat(pat))}, ff \in {parseFilter(flt)} :
          LET err == IF pf.err # "nil" THEN pf.err ELSE ff.err
          IN  /\ pattern' = pat
              /\ filter' = flt
              /\ input' = rs
              /\ cerr' = err
              /\ state' = IF err = "nil" THEN "ready" ELSE "failed"
              /\ r' = IF err = "nil"
                      THEN [NoReader EXCEPT !.parse = pf.pfs, !.keep = ff.fn]
                      ELSE NoReader
    /\ UNCHANGED <<calls, all, writer, aside>>

\* what a call of Read returned, with its log
Result(x) == [e |-> x.e, err |-> x.err, panic |-> x.panic, log |-> x.log]

Read(ioe) ==
    /\ state = "ready"
    /\ r.lino < MaxCalls
    /\ \E x \in {ReadOp(r, input, ioe)} :
          /\ r' = x.r
          /\ calls' = Append(calls, Result(x))
          /\ state' = IF x.panic THEN "panic" ELSE state
    /\ UNCHANGED <<pattern, filter, input, cerr, all, writer, aside>>

ReadAll(ioe) ==
    /\ state = "ready"
    /\ r.lino < MaxCalls
    /\ ~all.called
    /\ \E x \in {ReadAllOp(r, input, ioe, <<>>, <<>>)} :
          /\ r' = x.r
          /\ calls' = calls \o [i \in 1..Len(x.rets) |-> Result(x.rets[i])]
          /\ all' = [called |-> ~x.panic, es |-> x.es, err |-> x.err,
                     first |-> r.pos]
          /\ state' = IF x.panic THEN "panic" ELSE state
    /\ UNCHANGED <<pattern, filter, input, cerr, writer, aside>>

\* Text(ws, pattern): a Writer, or the error of the compilation
Text(pat) ==
    /\ writer.state = "new"
    /\ \E x \in {TextOp(pat)} :
          writer' = [state   |-> IF x.err = "nil" THEN "ready" ELSE "failed",
                     pattern |-> pat, err |-> x.err, print |-> x.pfs]
    /\ UNCHANGED <<state, pattern, filter, input, cerr, r, calls, all, aside>>

\* w.Write(e), for an entry a call of Read returned
Write(i) ==
    /\ writer.state = "ready"
    /\ i \in 1..Len(calls)
    /\ calls[i].err = "nil" /\ ~calls[i].panic
    /\ \E out \in {WriteOp(writer.print, calls[i].e)} :
          sink' = [written |-> TRUE, e |-> calls[i].e, out |-> out]
    /\ UNCHANGED <<state, pattern, filter, input, cerr, r, calls, all, writer, scanner, alt, conc>>

Next ==
    \/ \E rs \in Streams, c \in Configs : NewReader(rs, c[1], c[2])
    \/ \E ioe \in StreamErrors : Read(ioe)
    \/ \E ioe \in StreamErrors : ReadAll(ioe)

Spec == Init /\ [][Next]_vars

\* The Reader under the configurations that show every way a call of Read
\* ends: a record, a skipped line, a conversion failure, a filtered line, a
\* panic of the filter, the end of the stream
ReadConfigs ==
    {<<PatUserPid, FltNone>>, <<PatUserPid, FltEqUser>>,
     <<PatUserPid, FltAllNot>>, <<PatWords, FltNone>>}

NextReads ==
    \/ \E rs \in Streams, c \in ReadConfigs : NewReader(rs, c[1], c[2])
    \/ \E ioe \in StreamErrors : Read(ioe)
    \/ \E ioe \in StreamErrors : ReadAll(ioe)

SpecReads == Init /\ [][NextReads]_vars

\* ------------------------------------------------------------------------
\* The corner cases of the three grammars: more read-patterns, filter
\* expressions and lines, and the Reader built and read over them
\* ------------------------------------------------------------------------

\* al 7;
LineAl == <<"a", "l", " ", "7", ";">>

\* 'bo' 0;
LineQuoted == <<"'", "b", "o", "'", " ", "0", ";">>

\* the empty string
PatEmpty == <<>>

\* %t(yyyy-mm-dd)
PatDate == <<"%", "t", "(", "y", "y", "y", "y", "-", "m", "m", "-", "d", "d", ")">>

\* %t(dd/mm/yy HH:MM:ss)
PatSlash == <<"%", "t", "(", "d", "d", "/", "m", "m", "/", "y", "y", " ", "H", "H", ":", "M", "M", ":", "s", "s", ")">>

\* %t(yyy-mm)
PatShortYear == <<"%", "t", "(", "y", "y", "y", "-", "m", "m", ")">>

\* %t(mmm dd)
PatMonthName == <<"%", "t", "(", "m", "m", "m", " ", "d", "d", ")">>

\* %t(yyyy
PatOpenTime == <<"%", "t", "(", "y", "y", "y", "y">>

\* %h(hostname
PatOpenHost == <<"%", "h", "(", "h", "o", "s", "t", "n", "a", "m", "e">>

\* %w(k
PatOpenWord == <<"%", "w", "(", "k">>

\* in(pid,0,50))
FltInPid == <<"i", "n", "(", "p", "i", "d", ",", "0", ",", "5", "0", ")", ")">>

\* in(user,bo,cy))
FltInUser == <<"i", "n", "(", "u", "s", "e", "r", ",", "b", "o", ",", "c", "y", ")", ")">>

\* in(user,cy,bo))
FltInUserSwap == <<"i", "n", "(", "u", "s", "e", "r", ",", "c", "y", ",", "b", "o", ")", ")">>

\* eq(user,bo))
FltEqExtra == <<"e", "q", "(", "u", "s", "e", "r", ",", "b", "o", ")", ")">>

\* eq(user bo)
FltNoComma == <<"e", "q", "(", "u", "s", "e", "r", " ", "b", "o", ")">>

\* eq(user,bo
FltOpen == <<"e", "q", "(", "u", "s", "e", "r", ",", "b", "o">>

\* in(user,bo,)
FltTrailingComma == <<"i", "n", "(", "u", "s", "e", "r", ",", "b", "o", ",", ")">>

\* in(user,bo,))
FltTrailingCommaExtra == <<"i", "n", "(", "u", "s", "e", "r", ",", "b", "o", ",", ")", ")">>

\* %t(mmdd)
PatMonthDay == <<"%", "t", "(", "m", "m", "d", "d", ")">>

\* %t(yymm)
PatYearMonth == <<"%", "t", "(", "y", "y", "m", "m", ")">>

CasePatterns ==
    {PatUserPid, PatTime, PatEmpty, PatDate, PatSlash, PatShortYear,
     PatMonthName, PatOpenTime, PatOpenHost, PatOpenWord, PatMonthDay,
     PatYearMonth}

CaseFilters ==
    {FltNone, FltInPid, FltInUser, FltInUserSwap, FltEqExtra, FltNoComma,
     FltOpen, FltTrailingComma, FltTrailingCommaExtra}

CaseLines == {LineBo, LineCy, LineAl, LineQuoted}

\* %5[red]u
PatDecorated == <<"%", "5", "[", "r", "e", "d", "]", "u">>

\* %q
PatUnknown == <<"%", "q">>

\* the write-patterns given to Text
PrintPatterns == {PatEmpty, PatUserPid, PatTime, PatDate, PatDecorated, PatUnknown}

\* the longest input stream of a corner case, in lines
MaxCaseLines == 2

CaseStreams == UNION {[1..n -> CaseLines] : n \in 0..MaxCaseLines}

NextCases ==
    \/ \E rs \in CaseStreams, pat \in CasePatterns, flt \in CaseFilters :
          NewReader(rs, pat, flt)
    \/ \E ioe \in StreamErrors : Read(ioe)
    \/ \E pat \in PrintPatterns : Text(pat)

SpecCases == Init /\ [][NextCases]_vars

\* ------------------------------------------------------------------------
\* A scanner on its own: scan(input) and then any sequence of calls of its
\* methods.  scanner.s is the scanner after the last call, s1 before it and
\* s2 before the call before that; op and op1 are the last call and the one
\* before; char, str, err and flag are what the last call returned, char1
\* the rune the call before returned, accept the predicate given to
\* readUntil.
\* ------------------------------------------------------------------------

\* the runes of the scanned inputs: a letter, a blank, a quote
ScanRunes == {"a", " ", "'"}

\* the longest scanned input, in runes
MaxInput == 3

ScanInputs == UNION {[1..n -> ScanRunes] : n \in 0..MaxInput}

\* the predicates the code hands to readUntil
ScanAccepts == {AcceptAlpha, AcceptNotBlank, AcceptNotParen}

\* the scanner variable after the call op left the scanner as t and
\* returned char, str, err and flag
After(op, t, char, str, err, flag) ==
    [op |-> op, op1 |-> scanner.op, s |-> t, s1 |-> scanner.s,
     s2 |-> scanner.s1, char |-> char, char1 |-> scanner.char,
     str |-> str, err |-> err, flag |-> flag, accept |-> {}]

Scanned == scanner.op # "none"

Scan(str) ==
    /\ ~Scanned
    /\ scanner' = [NoScanner EXCEPT !.op = "scan", !.s = scan(str),
                                    !.s1 = scan(str), !.s2 = scan(str)]
    /\ UNCHANGED <<state, pattern, filter, input, cerr, r, calls, all, writer, sink, alt, conc>>

ScanRead ==
    /\ Scanned
    /\ \E x \in {read(scanner.s)} :
          scanner' = After("read", x.s, x.char, <<>>, "nil", FALSE)
    /\ UNCHANGED <<state, pattern, filter, input, cerr, r, calls, all, writer, sink, alt, conc>>

ScanUnread ==
    /\ Scanned
    /\ \E x \in {unread(scanner.s)} :
          scanner' = After("unread", x.s, RuneError, <<>>, x.err, FALSE)
    /\ UNCHANGED <<state, pattern, filter, input, cerr, r, calls, all, writer, sink, alt, conc>>

ScanCurrent ==
    /\ Scanned
    /\ scanner' = After("current", scanner.s, current(scanner.s), <<>>, "nil", FALSE)
    /\ UNCHANGED <<state, pattern, filter, input, cerr, r, calls, all, writer, sink, alt, conc>>

ScanPeek ==
    /\ Scanned
    /\ scanner' = After("peek", scanner.s, peek(scanner.s), <<>>, "nil", FALSE)
    /\ UNCHANGED <<state, pattern, filter, input, cerr, r, calls, all, writer, sink, alt, conc>>

ScanDone ==
    /\ Scanned
    /\ scanner' = After("done", scanner.s, RuneError, <<>>, "nil", done(scanner.s))
    /\ UNCHANGED <<state, pattern, filter, input, cerr, r, calls, all, writer, sink, alt, conc>>

ScanReset ==
    /\ Scanned
    /\ scanner' = After("reset", reset(scanner.s), RuneError, <<>>, "nil", FALSE)
    /\ UNCHANGED <<state, pattern, filter, input, cerr, r, calls, all, writer, sink, alt, conc>>

ScanReadUntil(accept) ==
    /\ Scanned
    /\ \E x \in {readUntil(scanner.s, accept)} :
          scanner' = [After("readUntil", x.s, RuneError, x.str, "nil", FALSE)
                         EXCEPT !.accept = accept]
    /\ UNCHANGED <<state, pattern, filter, input, cerr, r, calls, all, writer, sink, alt, conc>>

ScanReadAlpha ==
    /\ Scanned
    /\ \E x \in {readAlpha(scanner.s)} :
          scanner' = After("readAlpha", x.s, RuneError, x.str, "nil", FALSE)
    /\ UNCHANGED <<state, pattern, filter, input, cerr, r, calls, all, writer, sink, alt, conc>>

ScanReadText ==
    /\ Scanned
    /\ \E x \in {readText(scanner.s)} :
          scanner' = After("readText", x.s, RuneError, x.str, "nil", FALSE)
    /\ UNCHANGED <<state, pattern, filter, input, cerr, r, calls, all, writer, sink, alt, conc>>

ScanReadBlank ==
    /\ Scanned
    /\ scanner' = After("readBlank", readBlank(scanner.s), RuneError, <<>>, "nil", FALSE)
    /\ UNCHANGED <<state, pattern, filter, input, cerr, r, calls, all, writer, sink, alt, conc>>

ScanReadLiteral ==
    /\ Scanned
    /\ \E x \in {readLiteral(scanner.s)} :
          scanner' = After("readLiteral", x.s, RuneError, x.str, "nil", FALSE)
    /\ UNCHANGED <<state, pattern, filter, input, cerr, r, calls, all, writer, sink, alt, conc>>

NextScanner ==
    \/ \E str \in ScanInputs : Scan(str)
    \/ ScanRead
    \/ ScanUnread
    \/ ScanCurrent
    \/ ScanPeek
    \/ ScanDone
    \/ ScanReset
    \/ \E accept \in ScanAccepts : ScanReadUntil(accept)
    \/ ScanReadAlpha
    \/ ScanReadText
    \/ ScanReadBlank
    \/ ScanReadLiteral

SpecScanner == Init /\ [][NextScanner]_vars

\* ------------------------------------------------------------------------
\* What the claims speak about
\* ------------------------------------------------------------------------

\* the calls of Read that returned a record
Returned == {i \in 1..Len(calls) : calls[i].err = "nil" /\ ~calls[i].panic}

\* the position in the input (from 1) of the line a returned record was
\* parsed from: the last line the call took from the stream
SourcePos(i) == calls[i].log[Len(calls[i].log)].pos

\* every line a call of Read handed to the filter, with the filter's answer
Asked ==
    {calls[i].log[j] : <<i, j>> \in
        {p \in (1..Len(calls)) \X (1..MaxLines + 1) :
            /\ p[2] <= Len(calls[p[1]].log)
            /\ calls[p[1]].log[p[2]].kept # "unasked"}}

\* the entry the compiled pattern extracts from a line on its own
Fresh(line) == mergeParse(r.parse, Empty, scan(line))

\* C1: every record Read returns carries, as its line number, the position
\* (from 1) of its source line in the input stream, skipped lines counted.
C1_LinoIsPosition ==
    \A i \in Returned : calls[i].e.Lino = SourcePos(i)

\* C2: a record Read returns holds only what was extracted from its own
\* line: it is the entry the pattern extracts from that line alone.
C2_RecordOfOwnLine ==
    \A i \in Returned :
        [calls[i].e EXCEPT !.Line = <<>>, !.Lino = 0] = Fresh(calls[i].e.Line).e

\* the lines of the input after the first n that are not empty, match the
\* read-pattern and pass the compiled filter, in input order
RECURSIVE Conforming(_)
Conforming(n) ==
    IF n >= Len(input) THEN <<>>
    ELSE LET line == input[n + 1]
             conforms(f) == Len(line) > 0 /\ f.err = "nil" /\ keeps(r.keep, f.e) = "true"
         IN  IF conforms(Fresh(line))
             THEN <<line>> \o Conforming(n + 1)
             ELSE Conforming(n + 1)

\* C3: ReadAll returns one record for each non-empty line that matches the
\* pattern and passes the filter, in input order, whatever the other lines.
C3_ReadAllReturnsConforming ==
    all.called =>
        [i \in 1..Len(all.es) |-> all.es[i].Line] = Conforming(all.first)

\* C4: a line whose pid or time text does not convert is skipped like a
\* pattern mismatch: no call of Read returns the conversion error and the
\* Reader never keeps it as its error.
C4_ConversionFailureSkipped ==
    /\ r.err \notin {"ErrNum", "ErrTime"}
    /\ \A i \in 1..Len(calls) : calls[i].err \notin {"ErrNum", "ErrTime"}

\* the filters of the model that name a field the grammar does not have
UnknownFieldFilters == {FltEqBogus, FltNeBogus, FltInBogus}

\* C5: a filter expression naming an undefined field is refused by NewReader.
C5_UnknownFieldRejected ==
    (state # "new" /\ filter \in UnknownFieldFilters) => cerr # "nil"

\* the filters not(X) of the model, each with its X
Negations == {<<FltNotEqUser, FltEqUser>>}

\* C6: a Reader built with not(X) keeps a record exactly when the predicate
\* compiled from X rejects it.
C6_NotIsNegation ==
    \A n \in Negations :
        filter = n[1] =>
            \A ev \in Asked :
                (ev.kept = "true") <=> (callFilter(parseFilter(n[2]).fn, ev.e) = "false")

\* the between filters of the model on pid, each with its two bounds
Ranges ==
    {<<FltBetween, 100, 200>>, <<FltBetweenWide, 9, 100>>, <<FltBetweenSwap, 9, 100>>}

\* C7: between(pid, a, b) keeps a record exactly when its pid lies between
\* the smaller and the larger bound, in integer order, whichever is written
\* first.
C7_BetweenIsRange ==
    \A g \in Ranges :
        filter = g[1] =>
            \A ev \in Asked :
                (ev.kept = "true") <=> (g[2] <= ev.e.Pid /\ ev.e.Pid <= g[3])

\* the filters of the model that follow the grammar of in / between, alone
\* and nested
ListFilters == {FltBetween, FltAllIn}

\* C8: an in or between expression that follows the grammar compiles, as the
\* whole filter and nested inside all.
C8_ListExpressionCompiles ==
    (state # "new" /\ filter \in ListFilters) => cerr = "nil"

\* the filters of the model whose literal does not convert to the type of
\* the field
UnconvertibleFilters == {FltEqPidText, FltGePidText, FltEqTimeText}

\* C9: a comparison whose literal does not convert to the field's type is
\* false for every record.
C9_UnconvertibleIsFalse ==
    filter \in UnconvertibleFilters => \A ev \in Asked : ev.kept = "false"

\* C10: evaluating a filter that compiled never panics.
C10_EvaluationNeverPanics ==
    state # "panic"

\* the values `in(pid,0,50)` lists, and the users `in(user,...)` lists
ListedPids == {0, 50}

ListedUsers == {<<"b", "o">>, <<"c", "y">>}

\* C11: in(field, v1, ..., vn) accepts a record iff the field's value is
\* one of the listed values, for pid as for user, in whatever order the
\* values are written.
C11_InIsMembership ==
    /\ filter = FltInPid =>
          \A ev \in Asked : (ev.kept = "true") <=> (ev.e.Pid \in ListedPids)
    /\ filter \in {FltInUser, FltInUserSwap} =>
          \A ev \in Asked : (ev.kept = "true") <=> (ev.e.User \in ListedUsers)


\* the filter expressions that are not well formed: an open parenthesis, a
\* missing comma, text left over after the expression, a trailing comma
MalformedFilters ==
    {FltOpen, FltNoComma, FltEqExtra, FltTrailingComma, FltTrailingCommaExtra}

\* C12: parseFilter rejects every expression with unbalanced parentheses
\* or a missing comma, leftover text after a complete expression and a
\* trailing comma in a list included: no Reader is built from one.
C12_MalformedFilterRejected ==
    filter \in MalformedFilters /\ state # "new" => cerr # "nil"

\* the signals that end the iteration: the end of the input and the error
\* of the stream
EndSignals == {EOF} \cup (StreamErrors \ {"nil"})

\* the calls of Read made after a call that returned one of the end signals
AfterEnd ==
    {p \in (1..Len(calls)) \X (1..Len(calls)) :
        p[1] < p[2] /\ calls[p[1]].err \in EndSignals}

\* C13: once Read has returned the end of the stream or the error of the
\* stream, every later Read returns that same signal with an empty record
\* and takes no line from the input; and the call that first meets the end
\* of the stream returns io.EOF exactly when the stream ended without error.
C13_EndIsSticky ==
    /\ [](\A p \in AfterEnd :
            /\ calls[p[2]].err = calls[p[1]].err
            /\ calls[p[2]].e = Empty
            /\ calls[p[2]].log = <<>>)
    /\ [][\A ioe \in StreamErrors :
            Read(ioe) /\ r.err = "nil" /\ r'.err \in EndSignals
                => (r'.err = EOF <=> ioe = "nil")]_vars

\* Read has returned a record, then io.EOF, and has been called again
C13_ReadAfterEnd ==
    /\ Returned # {}
    /\ \E p \in AfterEnd : calls[p[1]].err = EOF

\* the calls of Read that returned an error
Failed == {i \in 1..Len(calls) : calls[i].err # "nil"}

\* C14: Read sets Line and Lino only on the line that matched the pattern
\* and passed the filter: a record returned with an error has an empty
\* Line and Lino 0, a record returned without error has as Line the exact
\* text of the line of the input it was accepted on.
C14_LineSetOnAcceptance ==
    /\ \A i \in Failed : calls[i].e.Line = <<>> /\ calls[i].e.Lino = 0
    /\ \A i \in Returned :
          /\ calls[i].e.Line = input[SourcePos(i)]
          /\ calls[i].log[Len(calls[i].log)].kept = "true"
          /\ calls[i].log[Len(calls[i].log)].perr = "nil"

\* one call of Read returned a record after it had skipped a line, and
\* another returned an error after it had parsed a line
C14_RecordAndErrorReturned ==
    /\ \E i \in Returned : Len(calls[i].log) > 1
    /\ \E i \in Failed : calls[i].log # <<>>

\* C15: a Reader built with the empty read-pattern and a text Writer built
\* with the empty write-pattern both exist: NewReader and Text return no
\* error, and the Reader parses with the compiled default read-pattern.
C15_EmptyPatternIsDefault ==
    /\ state # "new" /\ pattern = PatEmpty /\ filter = FltNone =>
          /\ state = "ready"
          /\ r.parse = parseFormat(defaultParseFormat).pfs
          /\ r.parse # <<>>
    /\ writer.state # "new" /\ writer.pattern = PatEmpty =>
          writer.state = "ready" /\ writer.print # <<>>

\* every line a call of Read took from the stream and handed to the parser
Taken ==
    UNION {{calls[i].log[j] : j \in 1..Len(calls[i].log)} : i \in 1..Len(calls)}

\* C16: a literal that starts with a quote is read verbatim up to the next
\* occurrence of the same quote and the cursor is left after it: the line
\* 'bo' 0; parsed with %u %p; gives the user bo and the pid 0.
C16_QuotedLiteralVerbatim ==
    pattern = PatUserPid =>
        \A ev \in Taken :
            ev.line = LineQuoted =>
                ev.perr = "nil" /\ ev.e.User = <<"b", "o">> /\ ev.e.Pid = 0

\* the format of the %t the Reader's pattern starts with
TimeLayout == r.parse[1].format

\* 2006-01-02
NativeDate == <<"2", "0", "0", "6", "-", "0", "1", "-", "0", "2">>

\* 02/01/06 15:04:05
NativeSlash == <<"0", "2", "/", "0", "1", "/", "0", "6", " ", "1", "5", ":", "0", "4", ":", "0", "5">>

\* C17: a template of known tokens separated by non-letters translates to
\* the tokens' native fragments separated by the same characters, the token
\* directly before the closing parenthesis included: (yyyy-mm-dd) gives
\* 2006-01-02 and (dd/mm/yy HH:MM:ss) gives 02/01/06 15:04:05.
C17_EveryTokenEmitted ==
    state = "ready" =>
        /\ pattern = PatDate => TimeLayout = NativeDate
        /\ pattern = PatSlash => TimeLayout = NativeSlash

\* Jan
NativeMonthName == <<"J", "a", "n">>

\* 06
NativeShortYear == <<"0", "6">>

\* C18: the translator commits to the longest known token at the start of a
\* run of letters: mmm is the abbreviated month name, and the run yyy, which
\* is longer than yy and shorter than yyyy, still yields the fragment of yy.
C18_LongestMatch ==
    state = "ready" =>
        /\ pattern = PatMonthName => HasPrefix(TimeLayout, NativeMonthName)
        /\ pattern = PatShortYear => HasPrefix(TimeLayout, NativeShortYear)

\* what the translator makes of a symbolic template written in parentheses
Translated(template) ==
    parseTimeFormat(scan(<<"(">> \o template \o <<")">>)).format

\* the format of the %t the Writer's pattern starts with
PrintLayout == writer.print[1].Func.format

\* C19: a %t without a template in parentheses hands the time parser, and
\* the time formatter on the write side, the translation of the default
\* symbolic template, never the symbolic template itself.
C19_DefaultTimeFormatIsNative ==
    /\ state = "ready" /\ pattern = PatTime =>
          TimeLayout = Translated(defaultTimeFormat) /\ TimeLayout # defaultTimeFormat
    /\ writer.state = "ready" /\ writer.pattern = PatTime =>
          PrintLayout = Translated(defaultTimeFormat) /\ PrintLayout # defaultTimeFormat

\* the read-patterns that end inside the parentheses of a specifier
OpenPatterns == {PatOpenTime, PatOpenHost, PatOpenWord}

\* C20: a read-pattern whose %t(, %h( or %w( is not closed before the end
\* of the pattern is a syntax error: NewReader returns ErrSyntax and no
\* Reader exists for it.
C20_OpenParenRejected ==
    state # "new" /\ pattern \in OpenPatterns =>
        /\ state = "failed"
        /\ filter = FltNone => cerr = ErrSyntax

\* C24: unread after a read puts the cursor back where it was before the
\* read, so that the next read returns the same rune again, also when the
\* read was made at or past the end of the input; an unread that follows an
\* unread returns an error and leaves the cursor where it is.
C24_UnreadRestores ==
    /\ scanner.op = "unread" /\ scanner.op1 = "read" =>
          /\ cursor(scanner.s) = cursor(scanner.s2)
          /\ read(scanner.s).char = scanner.char1
    /\ scanner.op = "unread" /\ scanner.op1 = "unread" =>
          /\ scanner.err = "ErrUnread"
          /\ cursor(scanner.s) = cursor(scanner.s1)

\* a read at the end of a non-empty input has been unread
C24_UnreadAtEnd ==
    /\ scanner.op = "unread" /\ scanner.op1 = "read"
    /\ scanner.s2.input # <<>>
    /\ scanner.s2.next >= Len(scanner.s2.input)

\* the calls that read a run of runes
RunCalls == {"readUntil", "readAlpha", "readText", "readBlank"}

\* the runes the last call accepted
RunAccept ==
    CASE scanner.op = "readAlpha" -> AcceptAlpha
      [] scanner.op = "readText" -> AcceptLetter
      [] scanner.op = "readBlank" -> AcceptBlank
      [] OTHER -> scanner.accept \ {RuneError}

\* the longest run of runes of the set accept that starts at offset i
RECURSIVE Run(_, _, _)
Run(in, i, accept) ==
    IF i >= Len(in) \/ in[i + 1] \notin accept THEN <<>>
    ELSE <<in[i + 1]>> \o Run(in, i + 1, accept)

\* the run the last call had in front of it
RunAhead == Run(scanner.s1.input, scanner.s1.next, RunAccept)

\* C25: readUntil, readAlpha, readText and readBlank take the longest run
\* of accepted runes that starts at the cursor and nothing more: the next
\* read returns the first rune that was not accepted, and when the run is
\* empty, the scanner at the end of its input included, the cursor is left
\* where it was.
C25_RunNotOverread ==
    scanner.op \in RunCalls =>
        /\ scanner.s.next = scanner.s1.next + Len(RunAhead)
        /\ RunAhead = <<>> => cursor(scanner.s) = cursor(scanner.s1)

\* 0 <= curr <= next <= len(input)
InBounds(c, in) == 0 <= c.curr /\ c.curr <= c.next /\ c.next <= Len(in)

\* C28: after any sequence of calls on any input, the cursor of the scanner
\* and its saved cursor both satisfy 0 <= curr <= next <= len(input).
C28_CursorInBounds ==
    /\ InBounds(cursor(scanner.s), scanner.s.input)
    /\ InBounds(scanner.s.old, scanner.s.input)

\* the scanner has read past the end of a non-empty input and has been
\* called again
C28_CalledPastEnd ==
    /\ scanner.s1.input # <<>>
    /\ scanner.s1.curr = Len(scanner.s1.input)
    /\ scanner.op = "read" /\ scanner.op1 = "read"

\* the calls that return the runes they read
TextCalls == {"readUntil", "readAlpha", "readText", "readLiteral"}

\* C29: the string a scanner call returns holds runes of the scanned input
\* only: the rune returned at the end of the input is never part of it,
\* also when the predicate accepts that rune and the input ends first.
C29_NoSentinelInResult ==
    scanner.op \in TextCalls =>
        \A i \in 1..Len(scanner.str) : scanner.str[i] # RuneError

\* 0102
NativeMonthDay == <<"0", "1", "0", "2">>

\* 0601
NativeYearMonth == <<"0", "6", "0", "1">>

\* C26: a letter that ends a token starts the next one: adjacent tokens of
\* different letters translate to their fragments one after the other,
\* (mmdd) to 0102 and (yymm) to 0601, and the letter is never copied into
\* the layout as it is.
C26_LeftOverLetterReseeds ==
    state = "ready" =>
        /\ pattern = PatMonthDay => TimeLayout = NativeMonthDay
        /\ pattern = PatYearMonth => TimeLayout = NativeYearMonth
        /\ pattern \in {PatMonthDay, PatYearMonth} =>
              \A i \in 1..Len(TimeLayout) : ~isLetter(TimeLayout[i])

\* ------------------------------------------------------------------------
\* Rendering what was read: a Reader, a text Writer, and the entries the
\* Reader returned written through the Writer
\* ------------------------------------------------------------------------

\* bo 007;
LinePadded == <<"b", "o", " ", "0", "0", "7", ";">>

\* 2024-02-29
LineDate == <<"2", "0", "2", "4", "-", "0", "2", "-", "2", "9">>

\* %u
PatUser == <<"%", "u">>

\* %1[red]u
PatNarrow == <<"%", "1", "[", "r", "e", "d", "]", "u">>

\* %[zz]u
PatNoColor == <<"%", "[", "z", "z", "]", "u">>

\* %[,blue]u
PatBack == <<"%", "[", ",", "b", "l", "u", "e", "]", "u">>

RenderLines == {LineBo, LineCy, LinePadded, LineDate}

RenderStreams == UNION {[1..n -> RenderLines] : n \in 0..MaxCaseLines}

RenderReadPatterns == {PatUserPid, PatDate}

RenderPatterns ==
    {PatUserPid, PatDate, PatUser, PatNarrow, PatDecorated, PatNoColor, PatBack}

NextRender ==
    \/ \E rs \in RenderStreams, pat \in RenderReadPatterns : NewReader(rs, pat, FltNone)
    \/ Read("nil")
    \/ \E pat \in RenderPatterns : Text(pat)
    \/ \E i \in 1..MaxCalls : Write(i)

SpecRender == Init /\ [][NextRender]_vars

\* the characters of out without the escape sequences (ESC up to its m)
RECURSIVE StripAnsi(_, _)
StripAnsi(out, inside) ==
    IF out = <<>> THEN <<>>
    ELSE IF inside THEN StripAnsi(Tail(out), out[1] # "m")
    ELSE IF out[1] = ESC THEN StripAnsi(Tail(out), TRUE)
    ELSE <<out[1]>> \o StripAnsi(Tail(out), FALSE)

\* the text without the spaces at its end
RECURSIVE TrimRight(_)
TrimRight(str) ==
    IF str # <<>> /\ str[Len(str)] = " " THEN TrimRight(SubSeq(str, 1, Len(str) - 1))
    ELSE str

\* the text of a written line: no newline, no escape sequences, no padding
Stripped(out) == TrimRight(StripAnsi(SubSeq(out, 1, Len(out) - 1), FALSE))

\* code occurs in out
Occurs(code, out) ==
    \E i \in 1..Len(out) :
        i + Len(code) - 1 <= Len(out) /\ SubSeq(out, i, i + Len(code) - 1) = code

ColorCodes ==
    {foregroundAnsiCodes(ansiColors[i]) : i \in 1..Len(ansiColors)}
    \cup {backgroundAnsiCodes(ansiColors[i]) : i \in 1..Len(ansiColors)}

\* the Writer compiled one directive, and it has a width or colors
Decorated ==
    /\ writer.state = "ready" /\ Len(writer.print) = 1
    /\ \/ writer.print[1].Width > 0
       \/ writer.print[1].Fore # <<>>
       \/ writer.print[1].Back # <<>>

\* C21: with the read-pattern and the write-pattern both "%u %p;", a line
\* the Reader accepted is written back as it was read, the user and the pid
\* with the text they had in the line
C21_RenderReproducesFields ==
    (sink.written /\ pattern = PatUserPid /\ writer.pattern = PatUserPid)
        => sink.out = sink.e.Line \o <<"\n">>

\* C22: what a directive with a width or colors writes is, without the
\* escape sequences and the padding, what the same directive without them
\* writes for the same entry
C22_DecorationKeepsText ==
    (sink.written /\ Decorated)
        => Stripped(sink.out)
             = Stripped(WriteOp(<<infoFromFunc(writer.print[1].Func)>>, sink.e))

\* C27: a directive with a width or colors writes the reset sequence if and
\* only if it wrote the escape sequence of a color
C27_ResetIffColor ==
    (sink.written /\ Decorated)
        => (Occurs(resetAnsiCode, sink.out)
              <=> \E code \in ColorCodes : Occurs(code, sink.out))

\* ------------------------------------------------------------------------
\* Alternatives: a pattern compiled by the revision with alternatives and
\* the lines parsed with it, each into an entry of its own
\* ------------------------------------------------------------------------

\* %u %p;|%g
PatUserPidOrGroup == <<"%", "u", " ", "%", "p", ";", "|", "%", "g">>

\* %w %p;|%u
PatWordPidOrUser == <<"%", "w", " ", "%", "p", ";", "|", "%", "u">>

\* %p|%w
PatPidOrWord == <<"%", "p", "|", "%", "w">>

\* a%u|b%u
PatLiteralUser == <<"a", "%", "u", "|", "b", "%", "u">>

\* %u|
PatUserOrNothing == <<"%", "u", "|">>

\* %q|%u
PatUnknownOrUser == <<"%", "q", "|", "%", "u">>

AltPatterns ==
    {PatUserPid, PatUserPidOrGroup, PatWordPidOrUser, PatPidOrWord,
     PatLiteralUser, PatUserOrNothing, PatUnknownOrUser, PatEmpty}

AltLines == {LineBo, LineCy, LineAl, LineBadPid, LineWords}

MaxRuns == 2

\* parseFormat(pattern) of the revision with alternatives
CompileAlternatives(pat) ==
    /\ alt.state = "new"
    /\ \E x \in {parseFormatAlternatives(pat)} :
          alt' = [alt EXCEPT !.state = IF x.err = "nil" THEN "ready" ELSE "failed",
                             !.pattern = pat, !.alts = x.alts, !.err = x.err]
    /\ UNCHANGED <<state, pattern, filter, input, cerr, r, calls, all, writer, scanner, sink, conc>>

\* parse(&e, scan(line)) on an empty entry
ParseLine(line) ==
    /\ alt.state = "ready"
    /\ Len(alt.runs) < MaxRuns
    /\ \E x \in {mergeAlternative(alt.alts, Empty, scan(line))} :
          alt' = [alt EXCEPT !.runs = Append(@, [line |-> line, e |-> x.e, err |-> x.err])]
    /\ UNCHANGED <<state, pattern, filter, input, cerr, r, calls, all, writer, scanner, sink, conc>>

NextAlternatives ==
    \/ \E pat \in AltPatterns : CompileAlternatives(pat)
    \/ \E line \in AltLines : ParseLine(line)

SpecAlternatives == Init /\ [][NextAlternatives]_vars

\* what the k-th alternative of the compiled pattern does with the line when
\* it is the only one
AloneOn(k, line) == mergeParse(alt.alts[k], Empty, scan(line))

\* the alternatives that match the line
Matching(line) == {k \in 1..Len(alt.alts) : AloneOn(k, line).err = "nil"}

FirstOf(ks) == CHOOSE k \in ks : \A j \in ks : k <= j

\* C30: with two alternatives or more, a line is accepted if and only if an
\* alternative matches it, the entry is the one the first alternative that
\* matches makes on its own, and the error is ErrPattern when none matches
C30_FirstMatchingAlternative ==
    \A i \in 1..Len(alt.runs) :
        Len(alt.alts) >= 2 =>
            IF Matching(alt.runs[i].line) = {}
            THEN alt.runs[i].err = ErrPattern
            ELSE /\ alt.runs[i].err = "nil"
                 /\ alt.runs[i].e
                      = AloneOn(FirstOf(Matching(alt.runs[i].line)), alt.runs[i].line).e

\* ------------------------------------------------------------------------
\* Concurrent callers of one compiled parser, predicate and renderer
\* (format.go:234-243, filter.go:165-180, print.go:156-165).  The compiled
\* values are shared; every caller has its own entry, scanner and sink and
\* runs the loop of the function it called one iteration at a time.
\* ------------------------------------------------------------------------

ConcLines == {LineBo, LineBadPid}

\* the entry a caller of the predicate or of the renderer passes: the one
\* parsed from its line
EntryOf(prog, line) == mergeParse(prog.parse, Empty, scan(line)).e

\* one iteration of the loop of mergeParse, on the caller's entry and scanner
stepParseConsuming(prog, th) ==
    IF prog.parse = <<>> THEN [prog |-> prog, th |-> [th EXCEPT !.done = TRUE]]
    ELSE LET next(p) ==
                 [prog |-> [prog EXCEPT !.parse = Tail(prog.parse)],
                  th |-> [th EXCEPT !.e = p.e, !.s = p.s, !.err = p.err,
                                    !.i = th.i + 1, !.done = p.err # "nil"]]
         IN  next(callParse(prog.parse[1], th.e, th.s))

stepParse(prog, th) ==
    IF th.i > Len(prog.parse) THEN [prog |-> prog, th |-> [th EXCEPT !.done = TRUE]]
    ELSE LET next(p) ==
                 [prog |-> prog,
                  th |-> [th EXCEPT !.e = p.e, !.s = p.s, !.err = p.err,
                                    !.i = th.i + 1, !.done = p.err # "nil"]]
         IN  next(callParse(prog.parse[th.i], th.e, th.s))

\* one iteration of the loop of mergePrint, on the caller's sink
stepPrint(prog, th) ==
    IF th.i > Len(prog.print) THEN [prog |-> prog, th |-> [th EXCEPT !.done = TRUE]]
    ELSE [prog |-> prog,
          th |-> [th EXCEPT !.out = th.out \o PrintInfo(prog.print[th.i], th.e),
                            !.i = th.i + 1]]

\* the filterfunc called on the caller's entry
stepKeep(prog, th) ==
    [prog |-> prog, th |-> [th EXCEPT !.kept = keeps(prog.keep, th.e), !.done = TRUE]]

\* the parser, the predicate and the renderer compiled once
Compile(pat, flt, wpat) ==
    /\ ~conc.compiled
    /\ \E prog \in {Compiled(pat, flt, wpat)} :
          conc' = [conc EXCEPT !.compiled = TRUE, !.prog = prog, !.prog0 = prog]
    /\ UNCHANGED <<state, pattern, filter, input, cerr, r, calls, all, writer, scanner, sink, alt>>

\* a caller calls one of the three with arguments of its own
Invoke(t, kind, line) ==
    /\ conc.compiled
    /\ conc.th[t].kind = "idle"
    /\ conc' = [conc EXCEPT !.th[t] =
                   [Idle EXCEPT !.kind = kind, !.line = line, !.i = 1,
                                !.e = IF kind = "parse" THEN Empty
                                      ELSE EntryOf(conc.prog, line),
                                !.s = scan(line)]]
    /\ UNCHANGED <<state, pattern, filter, input, cerr, r, calls, all, writer, scanner, sink, alt>>

\* another caller is in the middle of the loop of its call
Amid(t) ==
    \E u \in Callers \ {t} :
        conc.th[u].kind # "idle" /\ ~conc.th[u].done /\ conc.th[u].i > 1

\* the call of caller t goes on by one iteration; mixed records that it did
\* while another call was in the middle of its loop
Step(t) ==
    /\ conc.th[t].kind # "idle"
    /\ ~conc.th[t].done
    /\ \E x \in {CASE conc.th[t].kind = "parse" -> stepParse(conc.prog, conc.th[t])
                   [] conc.th[t].kind = "print" -> stepPrint(conc.prog, conc.th[t])
                   [] conc.th[t].kind = "keep" -> stepKeep(conc.prog, conc.th[t])} :
          conc' = [conc EXCEPT !.prog = x.prog,
                               !.th[t] = [x.th EXCEPT !.mixed = @ \/ Amid(t)]]
    /\ UNCHANGED <<state, pattern, filter, input, cerr, r, calls, all, writer, scanner, sink, alt>>

ConcFilters == {FltInUser, FltBetween}

NextCallers ==
    \/ \E flt \in ConcFilters : Compile(PatUserPid, flt, PatUserPid)
    \/ \E t \in Callers, kind \in {"parse", "keep", "print"}, line \in ConcLines :
          Invoke(t, kind, line)
    \/ \E t \in Callers : Step(t)

SpecCallers == Init /\ [][NextCallers]_vars

\* what the call of a caller returns when it is run alone on the values as
\* they were compiled
Alone(th) ==
    CASE th.kind = "parse" ->
            LET whole(p) == [e |-> p.e, err |-> p.err, out |-> <<>>, kept |-> "unasked"]
            IN  whole(mergeParse(conc.prog0.parse, Empty, scan(th.line)))
      [] th.kind = "keep" ->
            [e |-> EntryOf(conc.prog0, th.line), err |-> "nil", out |-> <<>>,
             kept |-> keeps(conc.prog0.keep, EntryOf(conc.prog0, th.line))]
      [] th.kind = "print" ->
            [e |-> EntryOf(conc.prog0, th.line), err |-> "nil",
             out |-> mergePrint(conc.prog0.print, EntryOf(conc.prog0, th.line)),
             kept |-> "unasked"]

Outcome(th) == [e |-> th.e, err |-> th.err, out |-> th.out, kept |-> th.kept]

====
